---------------------------- MODULE Spec2Model ----------------------------
(***************************************************************************)
(* VaporTrail: the tiered time-series engine.                              *)
(*                                                                         *)
(* The store (raw_results, aggregated_results), the RollupManager, the     *)
(* RetentionManager, the raw-sample write path and the per-target probe    *)
(* loops of the Scheduler.                                                 *)
(*                                                                         *)
(* Time is counted in whole seconds of Unix time.  A target's timeout is a *)
(* float64 number of seconds in the source; it is kept here in half        *)
(* seconds (TimeoutHalf) so that a non-integer timeout can be told from    *)
(* its truncation.                                                         *)
(***************************************************************************)
EXTENDS Integers, Sequences, FiniteSets, TLC

VARIABLES
    clock,          \* the injected logical clock (clockwork.Clock), seconds
    targets,        \* table targets: set of Target records
    raw,            \* table raw_results: set of rows [id, target_id, time, latency]
    agg,            \* table aggregated_results: set of rows
    rawLog,         \* history: every raw row ever committed
    probes,         \* number of probe invocations started so far (row ids)
    inflight,       \* probes started and not yet returned: [id, target_id, send]
    buffer,         \* BatchWriter buffer: raw rows received and not yet flushed
    bufSince,       \* logical time the oldest buffered row was received
    dropped,        \* history: the rows of the flushes that failed
    rmPc,           \* RollupManager: "idle" or "run" (inside processRollups)
    rmTarget,       \* the target record processRollups read with GetTargets
    rmPolicies,     \* its sorted retention policies
    rmIdx,          \* index of the policy the loop is at
    rmLastWindow,   \* lastWindow of processRollups: the source tier
    lastSeen,       \* history: GetLastRollupTime per tier at the end of the last tick
    rmFailed,       \* history: per tier, the windows of the batches that failed
    rt,             \* RetentionManager: [pc, next, pending, runs, started]
    mgrStop,        \* Stop() of the two managers: "no", "closed" or "returned"
    stopChans,      \* Scheduler.stopChans: target id -> probe loop
    loops,          \* probe loops (runProbeLoop goroutines) ever started
    resultsTable,   \* table results: the rows the probe loops save with AddResult
    ticks,          \* history: per loop, probe ticks fired and probes started
    stats,          \* table data_stats: rows [stat_key, row_count, total_bytes]
    tx,             \* the open transaction of AddRawResults, or NoTx
    call            \* history: the last call at a boundary and its outcome

storeVars == <<targets, raw, agg, rawLog>>
pipeVars  == <<probes, inflight, buffer, bufSince, dropped>>
rmVars    == <<rmPc, rmTarget, rmPolicies, rmIdx, rmLastWindow, lastSeen, rmFailed,
               rt, mgrStop>>
schedVars == <<stopChans, loops, resultsTable, ticks>>
dbVars    == <<stats, tx>>
vars      == <<clock, storeVars, pipeVars, rmVars, schedVars, dbVars, call>>

---------------------------------------------------------------------------
(* Bounds of the model *)

MaxTime == 8        \* the clock runs from 0 to MaxTime
MaxProbes == 2      \* probe invocations started in one behaviour
MaxLoops == 2       \* probe loops started in one behaviour
QueryHorizon == 61200   \* seconds of aggregated history a queried store holds
MaxBuffered == 1    \* values waiting in one loop's resultsChan
BatchSize == 2      \* buffered samples that trigger a flush (500 in the program)
MaxHours == 2       \* hours the clock of the RetentionManager runs
MaxTargets == 2     \* targets in the store
MaxTicks == 6       \* probe ticks fired in one behaviour that counts them

(* Program constants *)

CommitBuffer == 3       \* the 3 of t.Timeout+3: commit buffer 2 s + 1 s
FlushInterval == 2      \* BatchWriter flush interval, seconds
ProbeCap == 5           \* sem := make(chan struct{}, 5)
RawRowBytes == 50       \* VALUES ('raw_count', 1, 50)
PointLimit == 1000      \* durationSeconds/1000.0; GetRawResults(id, start, end, 1000)
DefaultWindow == 60     \* window = 60 when no window is available
GridSize == 21          \* Percentiles: 0th, 5th, 10th... 100th
RetentionInterval == 3600   \* rm.clock.NewTicker(1 * time.Hour), seconds
DefaultTimeoutHalf == 10    \* t.Timeout = 5.0, in half seconds
NoWindow == -1          \* window = -1: none picked yet
TimeoutSentinel == -1   \* latency of a timed-out probe
ZeroTime == -1000       \* time.Time{}: before every instant of the model
DaysToUnixEpoch == 719162   \* days from Go's zero time (1 Jan of year 1) to 1 Jan 1970
SecondsPerDay == 86400

TargetID == 1
Latencies == {TimeoutSentinel, 100}

(* Retention policies the target may be configured with (window, retention). *)
Policy(w, r) == [window |-> w, retention |-> r]
CascadePolicies == <<Policy(0, 5), Policy(2, 6), Policy(4, 8)>>
OddPolicies == <<Policy(0, 5), Policy(7, 8)>>

(* Target.Timeout in half seconds: 0.5 s and 1.0 s. *)
TargetConfigs ==
    { [id |-> TargetID, timeoutHalf |-> 1, policies |-> CascadePolicies],
      [id |-> TargetID, timeoutHalf |-> 2, policies |-> CascadePolicies],
      [id |-> TargetID, timeoutHalf |-> 1, policies |-> OddPolicies] }

---------------------------------------------------------------------------
(* Helpers *)

\* sum of the timeout_count of the rows of S
RECURSIVE SumTimeouts(_)
SumTimeouts(S) ==
    IF S = {} THEN 0
    ELSE LET x == CHOOSE y \in S : TRUE IN x.timeout_count + SumTimeouts(S \ {x})

\* sum of the t-digest weights of the rows of S
RECURSIVE SumCounts(_)
SumCounts(S) ==
    IF S = {} THEN 0
    ELSE LET x == CHOOSE y \in S : TRUE IN x.tdigest + SumCounts(S \ {x})

Max(S) == CHOOSE x \in S : \A y \in S : y <= x
Min(S) == CHOOSE x \in S : \A y \in S : x <= y

(***************************************************************************)
(* time.Time.Truncate(d): rounds t down to a multiple of d counted from    *)
(* Go's zero time, which lies DaysToUnixEpoch * SecondsPerDay seconds      *)
(* before the Unix epoch.  The product does not fit TLC's integers, so the *)
(* remainder is taken factor by factor.                                    *)
(***************************************************************************)
AbsMod(t, d) ==
    ((t % d) + (((DaysToUnixEpoch % d) * (SecondsPerDay % d)) % d)) % d

Truncate(t, d) == t - AbsMod(t, d)

---------------------------------------------------------------------------
(* Store *)

\* DB.AddRawResults: one transaction inserting every row of the batch
AddRawResults(table, results) == table \cup results

\* an INSERT with no ON CONFLICT clause on a table with no such key
AddAggregatedResultNoConflict(table, r) == table \cup {r}

\* DB.AddAggregatedResult: INSERT ... ON CONFLICT(key) DO UPDATE
AddAggregatedResult(table, r) ==
    { x \in table : ~(x.target_id = r.target_id
                      /\ x.window_seconds = r.window_seconds
                      /\ x.time = r.time) } \cup {r}

\* Store.AddAggregatedResults: the batch upserted in a single transaction
RECURSIVE AddAggregatedResults(_, _)
AddAggregatedResults(table, results) ==
    IF results = {} THEN table
    ELSE LET r == CHOOSE x \in results : TRUE
         IN AddAggregatedResults(AddAggregatedResult(table, r), results \ {r})

\* DB.GetLastRollupTime: SELECT MAX(time) ...; time.Time{} when there is no row
GetLastRollupTime(table, targetID, windowSeconds) ==
    LET ts == { x.time : x \in { y \in table : y.target_id = targetID
                                   /\ y.window_seconds = windowSeconds } }
    IN IF ts = {} THEN ZeroTime ELSE Max(ts)

\* DB.GetEarliestRawResultTime: SELECT MIN(time) ...
GetEarliestRawResultTime(table, targetID) ==
    LET ts == { x.time : x \in { y \in table : y.target_id = targetID } }
    IN IF ts = {} THEN ZeroTime ELSE Min(ts)

\* a query with the end of the interval included (time <= end)
GetRawResultsThroughEnd(table, targetID, start, end) ==
    { x \in table : x.target_id = targetID /\ x.time >= start /\ x.time <= end }

\* DB.GetRawResults: time >= start AND time < end (limit -1: unbounded)
GetRawResults(table, targetID, start, end) ==
    { x \in table : x.target_id = targetID /\ x.time >= start /\ x.time < end }

\* DB.GetAggregatedResults: time >= start AND time < end
GetAggregatedResults(table, targetID, windowSeconds, start, end) ==
    { x \in table : x.target_id = targetID /\ x.window_seconds = windowSeconds
                    /\ x.time >= start /\ x.time < end }

\* a DELETE with no target_id in its WHERE clause
DeleteRawResultsOfAllBefore(table, targetID, cutoff) ==
    { x \in table : ~(x.time < cutoff) }

\* DB.DeleteRawResultsBefore: DELETE ... WHERE target_id = ? AND time < ?
DeleteRawResultsBefore(table, targetID, cutoff) ==
    { x \in table : ~(x.target_id = targetID /\ x.time < cutoff) }

\* a DELETE that also takes the row at the cutoff (time <= ?)
DeleteAggregatedResultsThrough(table, targetID, windowSeconds, cutoff) ==
    { x \in table : ~(x.target_id = targetID /\ x.window_seconds = windowSeconds
                      /\ x.time <= cutoff) }

\* DB.DeleteAggregatedResultsByWindow: DELETE FROM aggregated_results
\* WHERE target_id = ? AND window_seconds = ?
DeleteAggregatedResultsByWindow(table, targetID, windowSeconds) ==
    { r \in table : ~(r.target_id = targetID /\ r.window_seconds = windowSeconds) }

\* DB.DeleteAggregatedResultsBefore
DeleteAggregatedResultsBefore(table, targetID, windowSeconds, cutoff) ==
    { x \in table : ~(x.target_id = targetID /\ x.window_seconds = windowSeconds
                      /\ x.time < cutoff) }


---------------------------------------------------------------------------
(* data_stats and its triggers *)

RawKey == [kind |-> "raw_count", target_id |-> 0, window_seconds |-> 0]

\* 'agg:' || target_id || ':' || window_seconds
AggKey(r) ==
    [kind |-> "agg", target_id |-> r.target_id, window_seconds |-> r.window_seconds]

\* a tdigest_data that tdigest.FromBytes returns an error for (such as the
\* gob bytes the earlier encoding stored), kept in the place of a weight
CorruptBlob == -1

\* LENGTH(tdigest_data): the gob encoding of the centroid list, which grows
\* with the centroids; here a header plus one unit for each unit of weight
BlobLen(r) == IF r.tdigest = CorruptBlob THEN 1 ELSE 1 + r.tdigest

\* the migration on an empty database: 'raw_count' with COUNT(*) = 0
InitStats == {[stat_key |-> RawKey, row_count |-> 0, total_bytes |-> 0]}

\* SUM(LENGTH(tdigest_data)) over the rows of S, length by length
RECURSIVE sumOfLengths(_, _)
sumOfLengths(S, lens) ==
    IF lens = {} THEN 0
    ELSE LET l == CHOOSE x \in lens : TRUE
         IN l * Cardinality({ r \in S : BlobLen(r) = l })
            + sumOfLengths(S, lens \ {l})

SumBlobLen(S) == sumOfLengths(S, { BlobLen(r) : r \in S })

\* the migration on a database that holds data: COUNT(*), COUNT(*) * 50 of
\* raw_results, and COUNT(*), SUM(LENGTH(tdigest_data)) of aggregated_results
\* GROUP BY target_id, window_seconds
statsOf(rawTable, aggTable) ==
    {[stat_key |-> RawKey, row_count |-> Cardinality(rawTable),
      total_bytes |-> Cardinality(rawTable) * RawRowBytes]}
    \cup { [stat_key |-> k,
            row_count |-> Cardinality({ r \in aggTable : AggKey(r) = k }),
            total_bytes |-> SumBlobLen({ r \in aggTable : AggKey(r) = k })] :
          k \in { AggKey(r) : r \in aggTable } }

NoTx == [open |-> FALSE, batch |-> {}, done |-> {}]
NoCall == [op |-> "none"]

\* INSERT INTO data_stats ... ON CONFLICT(stat_key) DO UPDATE SET
\* row_count = row_count + 1, total_bytes = total_bytes + bytes
statsUpsert(st, key, bytes) ==
    IF \E x \in st : x.stat_key = key
    THEN { IF x.stat_key = key
           THEN [x EXCEPT !.row_count = @ + 1, !.total_bytes = @ + bytes]
           ELSE x : x \in st }
    ELSE st \cup {[stat_key |-> key, row_count |-> 1, total_bytes |-> bytes]}

\* UPDATE data_stats SET row_count = row_count + dRows,
\* total_bytes = total_bytes + dBytes WHERE stat_key = key
statsUpdate(st, key, dRows, dBytes) ==
    { IF x.stat_key = key
      THEN [x EXCEPT !.row_count = @ + dRows, !.total_bytes = @ + dBytes]
      ELSE x : x \in st }

\* trigger raw_results_insert_stats, AFTER INSERT, for each row
raw_results_insert_stats(st) == statsUpsert(st, RawKey, RawRowBytes)

\* trigger raw_results_delete_stats, AFTER DELETE, for each row
raw_results_delete_stats(st) == statsUpdate(st, RawKey, -1, -RawRowBytes)

\* trigger agg_results_insert_stats
agg_results_insert_stats(st, new) == statsUpsert(st, AggKey(new), BlobLen(new))

\* an update trigger that leaves total_bytes as it was
agg_results_update_keeps_bytes(st, old, new) == st

\* trigger agg_results_update_stats
agg_results_update_stats(st, old, new) ==
    statsUpdate(st, AggKey(new), 0, BlobLen(new) - BlobLen(old))

\* trigger agg_results_delete_stats
agg_results_delete_stats(st, old) ==
    statsUpdate(st, AggKey(old), -1, -BlobLen(old))

\* data_stats after n rows are inserted into raw_results
RECURSIVE statsAfterRawInserts(_, _)
statsAfterRawInserts(st, n) ==
    IF n = 0 THEN st
    ELSE statsAfterRawInserts(raw_results_insert_stats(st), n - 1)

\* data_stats after n rows are deleted from raw_results
RECURSIVE statsAfterRawDeletes(_, _)
statsAfterRawDeletes(st, n) ==
    IF n = 0 THEN st
    ELSE statsAfterRawDeletes(raw_results_delete_stats(st), n - 1)

\* data_stats after the rows of `deleted` are deleted from aggregated_results
RECURSIVE statsAfterAggDeletes(_, _)
statsAfterAggDeletes(st, deleted) ==
    IF deleted = {} THEN st
    ELSE LET r == CHOOSE x \in deleted : TRUE
         IN statsAfterAggDeletes(agg_results_delete_stats(st, r), deleted \ {r})

\* data_stats after the upsert of r into table: the insert fires the insert
\* trigger, the DO UPDATE branch fires the update trigger
statsAfterUpsert(st, table, r) ==
    LET olds == { x \in table : x.target_id = r.target_id
                                /\ x.window_seconds = r.window_seconds
                                /\ x.time = r.time }
    IN IF olds = {}
       THEN agg_results_insert_stats(st, r)
       ELSE agg_results_update_stats(st, CHOOSE x \in olds : TRUE, r)

---------------------------------------------------------------------------
(* Retention policies *)

\* sortPolicies: sort.Slice by Window
RECURSIVE sortPolicies(_)
sortPolicies(policies) ==
    IF policies = <<>> THEN <<>>
    ELSE LET i == CHOOSE k \in 1..Len(policies) :
                      \A j \in 1..Len(policies) :
                          policies[k].window <= policies[j].window
         IN <<policies[i]>> \o
            sortPolicies(SubSeq(policies, 1, i - 1) \o
                         SubSeq(policies, i + 1, Len(policies)))

\* GetRetentionPolicies: the parsed list; <<>> stands for ErrNoRetentionPolicies
GetRetentionPolicies(t) == t.policies

\* the non-raw window sizes of a policy list
WindowsOf(policies) ==
    { policies[i].window : i \in 1..Len(policies) } \ {0}

AllWindows == UNION { WindowsOf(c.policies) : c \in TargetConfigs }

\* the retention of the policy of tier w
RetentionOf(policies, w) ==
    LET i == CHOOSE k \in 1..Len(policies) : policies[k].window = w
    IN policies[i].retention

---------------------------------------------------------------------------
(* RollupManager *)

NoTarget == [id |-> 0, timeoutHalf |-> 0, policies |-> <<>>]

\* a margin of the timeout alone, without the commit buffer
SafetyMarginNoBuffer(t) == t.timeoutHalf \div 2

\* time.Duration(t.Timeout+3) * time.Second: the conversion of the float64
\* sum to the integer Duration drops its fraction
SafetyMargin(t) == (t.timeoutHalf + 2 * CommitBuffer) \div 2

\* cutoff := rm.clock.Now().Add(-time.Duration(t.Timeout+3) * time.Second)
Cutoff(t, now) == now - SafetyMargin(t)

\* a window for an empty interval that counts one timeout
createRollupOneTimeout(t, windowSeconds, start) ==
    [target_id |-> t.id, window_seconds |-> windowSeconds, time |-> start,
     tdigest |-> 0, timeout_count |-> 1]

\* RollupManager.createEmptyRollup: an empty t-digest (weight 0), no timeouts
createEmptyRollup(t, windowSeconds, start) ==
    [target_id |-> t.id, window_seconds |-> windowSeconds, time |-> start,
     tdigest |-> 0, timeout_count |-> 0]

\* a merge that does not look at the error of DeserializeTDigest
mergesAlways(res) == TRUE

\* `if len(res.TDigestData) > 0` and, of DeserializeTDigest, `if err == nil`:
\* the source row whose digest is merged
merges(res) == BlobLen(res) > 0 /\ res.tdigest # CorruptBlob

(***************************************************************************)
(* RollupManager.aggregateWindow.  A t-digest is kept as its total weight: *)
(* Add adds 1, Merge adds the weight of the merged digest.                 *)
(***************************************************************************)
aggregateWindow(t, windowSeconds, sourceWindow, start, end) ==
    IF sourceWindow = 0
    THEN LET raws == GetRawResults(raw, t.id, start, end)
         IN IF raws = {}
            THEN createEmptyRollup(t, windowSeconds, start)
            ELSE [target_id |-> t.id, window_seconds |-> windowSeconds,
                  time |-> start,
                  tdigest |->
                      Cardinality({ r \in raws : r.latency # TimeoutSentinel }),
                  timeout_count |->
                      Cardinality({ r \in raws : r.latency = TimeoutSentinel })]
    ELSE LET results == GetAggregatedResults(agg, t.id, sourceWindow, start, end)
         IN IF results = {}
            THEN createEmptyRollup(t, windowSeconds, start)
            ELSE [target_id |-> t.id, window_seconds |-> windowSeconds,
                  time |-> start,
                  tdigest |-> SumCounts({ res \in results : merges(res) }),
                  timeout_count |-> SumTimeouts(results)]

\* an `if` in place of the `for`: at most one window for each pass
rollupOneWindow(t, windowSeconds, sourceWindow, nextWindowStart, cutoff) ==
    LET windowEnd == nextWindowStart + windowSeconds
    IN IF windowEnd > cutoff
       THEN {}
       ELSE { aggregateWindow(t, windowSeconds, sourceWindow,
                              nextWindowStart, windowEnd) }

\* the for loop of processTargetWindow: one window after the other up to cutoff
RECURSIVE rollupWindows(_, _, _, _, _)
rollupWindows(t, windowSeconds, sourceWindow, nextWindowStart, cutoff) ==
    LET windowEnd == nextWindowStart + windowSeconds
    IN IF windowEnd > cutoff
       THEN {}
       ELSE { aggregateWindow(t, windowSeconds, sourceWindow,
                              nextWindowStart, windowEnd) }
            \cup rollupWindows(t, windowSeconds, sourceWindow, windowEnd, cutoff)

\* a pass that starts again at the window of the last rollup
nextWindowStartAtLast(t, windowSeconds) ==
    LET lastTime == GetLastRollupTime(agg, t.id, windowSeconds)
        earliest == GetEarliestRawResultTime(raw, t.id)
    IN IF lastTime = ZeroTime
       THEN IF earliest = ZeroTime
            THEN ZeroTime
            ELSE Truncate(earliest, windowSeconds)
       ELSE lastTime

\* processTargetWindow, steps 1 and 2: where the next window starts;
\* ZeroTime when the tier has no last rollup and there is no raw row
nextWindowStartOf(t, windowSeconds) ==
    LET lastTime == GetLastRollupTime(agg, t.id, windowSeconds)
        earliest == GetEarliestRawResultTime(raw, t.id)
    IN IF lastTime = ZeroTime
       THEN IF earliest = ZeroTime
            THEN ZeroTime
            ELSE Truncate(earliest, windowSeconds)
       ELSE lastTime + windowSeconds

\* processTargetWindow: the batch of results it collects
rollupResults(t, windowSeconds, sourceWindow) ==
    LET nextWindowStart == nextWindowStartOf(t, windowSeconds)
    IN IF nextWindowStart = ZeroTime
       THEN {}
       ELSE rollupWindows(t, windowSeconds, sourceWindow,
                          nextWindowStart, Cutoff(t, clock))

\* data_stats after the batch is upserted row by row
RECURSIVE statsAfterUpserts(_, _, _)
statsAfterUpserts(st, table, results) ==
    IF results = {} THEN st
    ELSE LET r == CHOOSE x \in results : TRUE
         IN statsAfterUpserts(statsAfterUpsert(st, table, r),
                              AddAggregatedResult(table, r), results \ {r})

\* a pass that commits the first window of its batch only
processTargetWindowFirstOnly(t, windowSeconds, sourceWindow) ==
    LET nextWindowStart == nextWindowStartOf(t, windowSeconds)
    IN IF nextWindowStart = ZeroTime
       THEN agg
       ELSE LET results == rollupOneWindow(t, windowSeconds, sourceWindow,
                                           nextWindowStart, Cutoff(t, clock))
            IN IF results # {}
               THEN AddAggregatedResults(agg, results)
               ELSE agg

\* RollupManager.processTargetWindow: the table after the batch is committed
processTargetWindow(t, windowSeconds, sourceWindow) ==
    LET nextWindowStart == nextWindowStartOf(t, windowSeconds)
    IN IF nextWindowStart = ZeroTime
       THEN agg
       ELSE LET results == rollupWindows(t, windowSeconds, sourceWindow,
                                         nextWindowStart, Cutoff(t, clock))
            IN IF results # {}
               THEN AddAggregatedResults(agg, results)
               ELSE agg

\* processRollups: GetTargets, then the policies of the target, sorted
RollupBegin ==
    /\ rmPc = "idle"
    /\ \E t \in targets :
          /\ GetRetentionPolicies(t) # <<>>
          /\ rmTarget' = t
          /\ rmPolicies' = sortPolicies(GetRetentionPolicies(t))
    /\ rmPc' = "run"
    /\ rmIdx' = 1
    /\ rmLastWindow' = 0
    /\ UNCHANGED <<clock, storeVars, pipeVars, lastSeen, rmFailed, rt, mgrStop, schedVars,
                   dbVars, call>>

\* a batch that is stored as if AddAggregatedResults had returned an error
failedBatchStored(table, results) == AddAggregatedResults(table, results)

\* Store.AddAggregatedResults returns an error: the transaction of the batch
\* is rolled back and the table is as it was
failedBatch(table, results) == table

\* one iteration of the loop over the policies
RollupPolicy ==
    /\ rmPc = "run"
    /\ LET p == rmPolicies[rmIdx]
           newAgg == IF p.window = 0
                     THEN agg
                     ELSE processTargetWindow(rmTarget, p.window, rmLastWindow)
       IN /\ agg' = newAgg
          /\ stats' = IF p.window = 0
                       THEN stats
                       ELSE statsAfterUpserts(stats, agg,
                                rollupResults(rmTarget, p.window, rmLastWindow))
          /\ IF rmIdx < Len(rmPolicies)
             THEN /\ rmIdx' = rmIdx + 1
                  /\ rmLastWindow' = p.window
                  /\ UNCHANGED <<rmPc, rmTarget, rmPolicies, lastSeen>>
             ELSE /\ rmPc' = "idle"
                  /\ rmIdx' = 0
                  /\ rmLastWindow' = 0
                  /\ rmTarget' = NoTarget
                  /\ rmPolicies' = <<>>
                  /\ lastSeen' = [w \in AllWindows |->
                                    GetLastRollupTime(newAgg, rmTarget.id, w)]
    /\ UNCHANGED <<clock, targets, raw, rawLog, pipeVars, rmFailed, rt, mgrStop, schedVars,
                   tx, call>>

\* the same iteration when AddAggregatedResults fails: the error is logged
\* and the loop goes on to the next policy with lastWindow = p.Window
RollupPolicyFails ==
    /\ rmPc = "run"
    /\ LET p == rmPolicies[rmIdx]
           results == rollupResults(rmTarget, p.window, rmLastWindow)
       IN /\ p.window # 0
          /\ results # {}
          /\ agg' = failedBatch(agg, results)
          /\ rmFailed' = [rmFailed EXCEPT ![p.window] = @ \cup results]
          /\ IF rmIdx < Len(rmPolicies)
             THEN /\ rmIdx' = rmIdx + 1
                  /\ rmLastWindow' = p.window
                  /\ UNCHANGED <<rmPc, rmTarget, rmPolicies, lastSeen>>
             ELSE /\ rmPc' = "idle"
                  /\ rmIdx' = 0
                  /\ rmLastWindow' = 0
                  /\ rmTarget' = NoTarget
                  /\ rmPolicies' = <<>>
                  /\ lastSeen' = [w \in AllWindows |->
                                    GetLastRollupTime(agg', rmTarget.id, w)]
    /\ UNCHANGED <<clock, targets, raw, rawLog, pipeVars, rt, mgrStop, schedVars, dbVars, call>>

(***************************************************************************)
(* The same iteration when the fetch of the source rows fails for the      *)
(* windows that start at `failing`: aggregateWindow logs the error and     *)
(* returns nil, the loop of processTargetWindow appends nothing for the    *)
(* window and goes on with nextWindowStart = windowEnd, and the batch of   *)
(* the other windows is committed.                                         *)
(***************************************************************************)
RollupPolicyFetchFails ==
    /\ rmPc = "run"
    /\ LET p == rmPolicies[rmIdx]
           all == rollupResults(rmTarget, p.window, rmLastWindow)
       IN /\ p.window # 0
          /\ \E failing \in SUBSET { r.time : r \in all } :
                LET results == { r \in all : r.time \notin failing }
                IN /\ failing # {}
                   /\ agg' = IF results # {}
                             THEN AddAggregatedResults(agg, results)
                             ELSE agg
                   /\ stats' = statsAfterUpserts(stats, agg, results)
                   /\ call' = [op |-> "processTargetWindow",
                               window |-> p.window, failing |-> failing]
          /\ IF rmIdx < Len(rmPolicies)
             THEN /\ rmIdx' = rmIdx + 1
                  /\ rmLastWindow' = p.window
                  /\ UNCHANGED <<rmPc, rmTarget, rmPolicies, lastSeen>>
             ELSE /\ rmPc' = "idle"
                  /\ rmIdx' = 0
                  /\ rmLastWindow' = 0
                  /\ rmTarget' = NoTarget
                  /\ rmPolicies' = <<>>
                  /\ lastSeen' = [w \in AllWindows |->
                                    GetLastRollupTime(agg', rmTarget.id, w)]
    /\ UNCHANGED <<clock, targets, raw, rawLog, pipeVars, rmFailed, rt, mgrStop,
                   schedVars, tx>>

---------------------------------------------------------------------------
(* RetentionManager *)

\* a cutoff that spares the rows of one more window
RetentionCutoffKeepWindow(p, now) == now - p.retention - p.window

\* cutoff := rm.clock.Now().Add(-time.Duration(p.Retention) * time.Second)
RetentionCutoff(p, now) == now - p.retention

\* the loop of enforceRetention over the policies of one target, from policy i on
RECURSIVE retainRaw(_, _, _, _)
retainRaw(table, t, policies, i) ==
    IF i > Len(policies) THEN table
    ELSE LET p == policies[i]
             next == IF p.window = 0
                     THEN DeleteRawResultsBefore(table, t.id,
                                                 RetentionCutoff(p, clock))
                     ELSE table
         IN retainRaw(next, t, policies, i + 1)

RECURSIVE retainAggregated(_, _, _, _)
retainAggregated(table, t, policies, i) ==
    IF i > Len(policies) THEN table
    ELSE LET p == policies[i]
             next == IF p.window = 0
                     THEN table
                     ELSE DeleteAggregatedResultsBefore(table, t.id, p.window,
                                                        RetentionCutoff(p, clock))
         IN retainAggregated(next, t, policies, i + 1)

\* enforceRetention: the deletions of one run and what the triggers make of
\* them; with no target the run deletes nothing
retain ==
    /\ IF targets = {}
       THEN UNCHANGED <<raw, agg>>
       ELSE \E t \in targets :
               /\ raw' = retainRaw(raw, t, t.policies, 1)
               /\ agg' = retainAggregated(agg, t, t.policies, 1)
    /\ stats' = statsAfterAggDeletes(
                    statsAfterRawDeletes(stats, Cardinality(raw \ raw')),
                    agg \ agg')

\* RetentionManager.enforceRetention
enforceRetention ==
    /\ \E t \in targets :
          /\ raw' = retainRaw(raw, t, t.policies, 1)
          /\ agg' = retainAggregated(agg, t, t.policies, 1)
    /\ stats' = statsAfterAggDeletes(
                    statsAfterRawDeletes(stats, Cardinality(raw \ raw')),
                    agg \ agg')
    /\ UNCHANGED <<clock, targets, rawLog, pipeVars, rmVars, schedVars, tx, call>>

\* the RetentionManager before Start()
NotStarted == [pc |-> "new", next |-> 0, pending |-> FALSE, runs |-> 0, started |-> 0]

\* a ticker that never fires
tickNever(next, now) == FALSE

\* the ticker of run(): a tick is due when the clock has reached next
tickDue(next, now) == now >= next

\* Start(): go rm.run(), which creates the hourly ticker
RetentionStart ==
    /\ rt.pc = "new"
    /\ rt' = [rt EXCEPT !.pc = "initial", !.next = clock + RetentionInterval,
                        !.started = clock]
    /\ UNCHANGED <<clock, storeVars, pipeVars, rmPc, rmTarget, rmPolicies, rmIdx,
                   rmLastWindow, lastSeen, rmFailed, mgrStop, schedVars, dbVars, call>>

\* run(): the initial rm.enforceRetention(), before the select loop
RetentionInitial ==
    /\ rt.pc = "initial"
    /\ retain
    /\ rt' = [rt EXCEPT !.pc = "loop", !.runs = @ + 1]
    /\ UNCHANGED <<clock, targets, rawLog, pipeVars, rmPc, rmTarget, rmPolicies,
                   rmIdx, rmLastWindow, lastSeen, rmFailed, mgrStop, schedVars, tx,
                   call>>

\* run(): case <-ticker.Chan(): rm.enforceRetention()
RetentionTick ==
    /\ rt.pc = "loop"
    /\ rt.pending
    /\ retain
    /\ rt' = [rt EXCEPT !.pending = FALSE, !.runs = @ + 1]
    /\ UNCHANGED <<clock, targets, rawLog, pipeVars, rmPc, rmTarget, rmPolicies,
                   rmIdx, rmLastWindow, lastSeen, rmFailed, mgrStop, schedVars, tx,
                   call>>

\* the rest of the variables of the managers
rollupVars == <<rmPc, rmTarget, rmPolicies, rmIdx, rmLastWindow, lastSeen, rmFailed>>

\* a select of run() that never takes the closed stop channel
stopTaken(state) == FALSE

\* run(): case <-rm.stop is ready once Stop() has closed the channel
stopClosed(state) == state = "closed"

\* RollupManager.Stop(): close(rm.stop), then rm.wg.Wait() blocks
RollupStop ==
    /\ mgrStop.rollup = "no"
    /\ mgrStop' = [mgrStop EXCEPT !.rollup = "closed"]
    /\ UNCHANGED <<clock, storeVars, pipeVars, rollupVars, rt, schedVars, dbVars, call>>

\* RollupManager.run: case <-rm.stop: return, with the deferred wg.Done()
RollupExit ==
    /\ rmPc = "idle"
    /\ stopClosed(mgrStop.rollup)
    /\ rmPc' = "exited"
    /\ UNCHANGED <<clock, storeVars, pipeVars, rmTarget, rmPolicies, rmIdx,
                   rmLastWindow, lastSeen, rmFailed, rt, mgrStop, schedVars, dbVars,
                   call>>

\* RollupManager.Stop(): rm.wg.Wait() returns
RollupStopReturns ==
    /\ mgrStop.rollup = "closed"
    /\ rmPc = "exited"
    /\ mgrStop' = [mgrStop EXCEPT !.rollup = "returned"]
    /\ UNCHANGED <<clock, storeVars, pipeVars, rollupVars, rt, schedVars, dbVars, call>>

\* RetentionManager.Stop() after Start(): close(rm.stop), then rm.wg.Wait()
RetentionStop ==
    /\ rt.pc # "new"
    /\ mgrStop.retention = "no"
    /\ mgrStop' = [mgrStop EXCEPT !.retention = "closed"]
    /\ UNCHANGED <<clock, storeVars, pipeVars, rollupVars, rt, schedVars, dbVars, call>>

\* RetentionManager.run: case <-rm.stop: return, with the deferred
\* ticker.Stop() and wg.Done()
RetentionExit ==
    /\ rt.pc = "loop"
    /\ stopClosed(mgrStop.retention)
    /\ rt' = [rt EXCEPT !.pc = "exited", !.pending = FALSE]
    /\ UNCHANGED <<clock, storeVars, pipeVars, rollupVars, mgrStop, schedVars, dbVars,
                   call>>

\* RetentionManager.Stop(): rm.wg.Wait() returns
RetentionStopReturns ==
    /\ mgrStop.retention = "closed"
    /\ rt.pc = "exited"
    /\ mgrStop' = [mgrStop EXCEPT !.retention = "returned"]
    /\ UNCHANGED <<clock, storeVars, pipeVars, rollupVars, rt, schedVars, dbVars, call>>

(***************************************************************************)
(* The logical clock advances by half an hour.  The ticker sends a tick    *)
(* when the hour of the manager is reached; the manager has taken the tick *)
(* before, so no tick is lost in the channel of the ticker.                *)
(***************************************************************************)
HalfHour ==
    /\ clock + RetentionInterval \div 2 <= MaxHours * RetentionInterval
    /\ ~rt.pending
    /\ clock' = clock + RetentionInterval \div 2
    /\ rt' = IF rt.pc \in {"initial", "loop"} /\ tickDue(rt.next, clock')
             THEN [rt EXCEPT !.pending = TRUE, !.next = @ + RetentionInterval]
             ELSE rt
    /\ UNCHANGED <<storeVars, pipeVars, rmPc, rmTarget, rmPolicies, rmIdx,
                   rmLastWindow, lastSeen, rmFailed, mgrStop, schedVars, dbVars, call>>

---------------------------------------------------------------------------
(* The raw-sample write path: probe invocations and the BatchWriter *)

\* a probe is admitted: its send timestamp is captured
ProbeStart ==
    /\ probes < MaxProbes
    /\ \E t \in targets :
          /\ Cardinality({ p \in inflight : p.target_id = t.id }) < ProbeCap
          /\ inflight' = inflight \cup
                 {[id |-> probes + 1, target_id |-> t.id, send |-> clock]}
    /\ probes' = probes + 1
    /\ UNCHANGED <<clock, storeVars, buffer, bufSince, dropped, rmVars, schedVars,
                   dbVars, call>>

\* a BatchWriter that keeps the batch of a failed flush for the next one
bufferKeptOnFailure(batch, ok) == IF ok THEN {} ELSE batch

\* the buffer after a flush: the batch is gone, committed or dropped
bufferAfterFlush(batch, ok) == {}

\* BatchWriter flush of a batch: append_raw(batch) in one transaction, which
\* commits (ok) or fails; a failed batch is logged and dropped
flush(batch, ok) ==
    /\ raw' = IF ok THEN AddRawResults(raw, batch) ELSE raw
    /\ stats' = IF ok THEN statsAfterRawInserts(stats, Cardinality(batch)) ELSE stats
    /\ rawLog' = IF ok THEN rawLog \cup batch ELSE rawLog
    /\ dropped' = IF ok THEN dropped ELSE dropped \cup batch
    /\ buffer' = bufferAfterFlush(batch, ok)
    /\ bufSince' = IF buffer' = {} THEN ZeroTime
                   ELSE IF buffer = {} THEN clock ELSE bufSince

\* the BatchWriter receives the sample of probe p: it joins the buffer, and
\* a buffer that has reached BatchSize is flushed at once
receive(p, l, ok) ==
    LET received == buffer \cup
                       {[id |-> p.id, target_id |-> p.target_id, time |-> p.send,
                         latency |-> l]}
    IN /\ inflight' = inflight \ {p}
       /\ IF Cardinality(received) >= BatchSize
          THEN flush(received, ok)
          ELSE /\ ok
               /\ buffer' = received
               /\ bufSince' = IF buffer = {} THEN clock ELSE bufSince
               /\ UNCHANGED <<raw, stats, rawLog, dropped>>

\* ProbeRunner.run returns a latency or Timeout: the sample reaches the buffer
ProbeReturn ==
    /\ \E p \in inflight, l \in Latencies : receive(p, l, TRUE)
    /\ UNCHANGED <<clock, targets, agg, probes, rmVars, schedVars, tx, call>>

\* the same when the flush that the sample triggers fails
ProbeReturnFlushFails ==
    /\ \E p \in inflight, l \in Latencies : receive(p, l, FALSE)
    /\ UNCHANGED <<clock, targets, agg, probes, rmVars, schedVars, tx, call>>

\* ProbeRunner.run returns another error: no sample is recorded
ProbeError ==
    /\ \E p \in inflight : inflight' = inflight \ {p}
    /\ UNCHANGED <<clock, storeVars, probes, buffer, bufSince, dropped, rmVars,
                   schedVars, dbVars, call>>

\* BatchWriter flush tick with samples buffered: append_raw(buffer) commits
Flush ==
    /\ buffer # {}
    /\ flush(buffer, TRUE)
    /\ UNCHANGED <<clock, targets, agg, probes, inflight, rmVars, schedVars, tx, call>>

\* the same when append_raw(buffer) fails
FlushFails ==
    /\ buffer # {}
    /\ flush(buffer, FALSE)
    /\ UNCHANGED <<clock, targets, agg, probes, inflight, rmVars, schedVars, tx, call>>

\* BatchWriter flush tick with an empty buffer: no store operation
FlushEmpty ==
    /\ buffer = {}
    /\ UNCHANGED vars

(***************************************************************************)
(* The logical clock advances by one second.  A probe returns within its   *)
(* timeout and a buffered sample is flushed within the flush interval, so  *)
(* the clock does not pass either deadline.                                *)
(***************************************************************************)
Tick ==
    /\ clock < MaxTime
    /\ \A p \in inflight : \A t \in targets :
          t.id = p.target_id => 2 * (clock + 1 - p.send) <= t.timeoutHalf
    /\ buffer # {} => clock + 1 - bufSince <= FlushInterval
    /\ clock' = clock + 1
    /\ UNCHANGED <<storeVars, pipeVars, rmVars, schedVars, dbVars, call>>

---------------------------------------------------------------------------
(* Calls on the store: DB.AddRawResults statement by statement,            *)
(* DB.AddAggregatedResult, the deletions, and the deletion of a target     *)

\* the rows the calls are made with
SampleTimes == {0, 1}
UpsertRows ==
    { [target_id |-> TargetID, window_seconds |-> 2, time |-> s,
       tdigest |-> v[1], timeout_count |-> v[2]] :
        s \in {0, 2}, v \in {<<0, 0>>, <<2, 1>>} }
Cutoffs == {1, 3}

\* the batches of n rows with the next free row ids
Batches(n) ==
    IF n = 1
    THEN { {[id |-> probes + 1, target_id |-> TargetID, time |-> t, latency |-> l]} :
            t \in SampleTimes, l \in Latencies }
    ELSE { {[id |-> probes + 1, target_id |-> TargetID, time |-> t, latency |-> l],
            [id |-> probes + 2, target_id |-> TargetID, time |-> t + 1,
             latency |-> TimeoutSentinel]} :
            t \in SampleTimes, l \in Latencies }

\* a statement run without a transaction: the row is in the table at once
ExecAutocommit(table, r) == table \cup {r}

\* stmt.Exec inside the transaction: the row is not in the table other
\* connections read until tx.Commit()
ExecInTx(table, r) == table

\* AddRawResults: d.Begin() and tx.Prepare for a non-empty batch
RawTxBegin ==
    /\ ~tx.open
    /\ \E n \in 1..2 :
          /\ probes + n <= MaxProbes
          /\ \E b \in Batches(n) : tx' = [open |-> TRUE, batch |-> b, done |-> {}]
          /\ probes' = probes + n
    /\ UNCHANGED <<clock, storeVars, inflight, buffer, bufSince, dropped, rmVars,
                   schedVars, stats, call>>

\* AddRawResults: stmt.Exec for the next row
RawTxExec ==
    /\ tx.open
    /\ \E r \in tx.batch \ tx.done :
          /\ tx' = [tx EXCEPT !.done = @ \cup {r}]
          /\ raw' = ExecInTx(raw, r)
    /\ UNCHANGED <<clock, targets, agg, rawLog, pipeVars, rmVars, schedVars,
                   stats, call>>

\* AddRawResults: stmt.Exec fails; tx.Rollback(); return err
RawTxRollback ==
    /\ tx.open
    /\ tx.done # tx.batch
    /\ tx' = NoTx
    /\ call' = [op |-> "AddRawResults", batch |-> tx.batch, done |-> tx.done,
                err |-> TRUE]
    /\ UNCHANGED <<clock, storeVars, pipeVars, rmVars, schedVars, stats>>

\* AddRawResults: return tx.Commit()
RawTxCommit ==
    /\ tx.open
    /\ tx.done = tx.batch
    /\ raw' = AddRawResults(raw, tx.batch)
    /\ rawLog' = rawLog \cup tx.batch
    /\ stats' = statsAfterRawInserts(stats, Cardinality(tx.batch))
    /\ tx' = NoTx
    /\ call' = [op |-> "AddRawResults", batch |-> tx.batch, done |-> tx.done,
                err |-> FALSE]
    /\ UNCHANGED <<clock, targets, agg, pipeVars, rmVars, schedVars>>

\* DB.AddAggregatedResult with its triggers
StoreAddAggregatedResult ==
    /\ \E r \in UpsertRows :
          /\ agg' = AddAggregatedResult(agg, r)
          /\ stats' = statsAfterUpsert(stats, agg, r)
          /\ call' = [op |-> "AddAggregatedResult", row |-> r,
                      old |-> { x \in agg : x.target_id = r.target_id
                                           /\ x.window_seconds = r.window_seconds
                                           /\ x.time = r.time }]
    /\ UNCHANGED <<clock, targets, raw, rawLog, pipeVars, rmVars, schedVars, tx>>

\* DB.DeleteRawResultsBefore with its trigger
StoreDeleteRawResultsBefore ==
    /\ \E c \in Cutoffs :
          /\ raw' = DeleteRawResultsBefore(raw, TargetID, c)
          /\ call' = [op |-> "DeleteRawResultsBefore", cutoff |-> c]
    /\ stats' = statsAfterRawDeletes(stats, Cardinality(raw \ raw'))
    /\ UNCHANGED <<clock, targets, agg, rawLog, pipeVars, rmVars, schedVars, tx>>

\* DB.DeleteAggregatedResultsBefore with its trigger
StoreDeleteAggregatedResultsBefore ==
    /\ \E c \in Cutoffs : \E w \in { r.window_seconds : r \in UpsertRows } :
          /\ agg' = DeleteAggregatedResultsBefore(agg, TargetID, w, c)
          /\ call' = [op |-> "DeleteAggregatedResultsBefore", cutoff |-> c]
    /\ stats' = statsAfterAggDeletes(stats, agg \ agg')
    /\ UNCHANGED <<clock, targets, raw, rawLog, pipeVars, rmVars, schedVars, tx>>

\* the rows of a store that holds two tiers and the samples of two targets
TierTargets == {1, 2}
TierWindows == {CascadePolicies[2].window, CascadePolicies[3].window}
TierTimes == {0, 4}
TierCutoffs == {4, 5}
TierRows ==
    { [target_id |-> i, window_seconds |-> w, time |-> t, tdigest |-> 0,
       timeout_count |-> 0] : i \in TierTargets, w \in TierWindows, t \in TierTimes }
TierRawRows ==
    { [id |-> 2 * (i - 1) + (IF t = 0 THEN 1 ELSE 2), target_id |-> i,
       time |-> t, latency |-> 100] : i \in TierTargets, t \in TierTimes }

\* DB.DeleteRawResultsBefore for any of the targets, with its trigger
TierDeleteRawResultsBefore ==
    /\ \E i \in TierTargets, c \in TierCutoffs :
          /\ raw' = DeleteRawResultsBefore(raw, i, c)
          /\ call' = [op |-> "DeleteRawResultsBefore", id |-> i, cutoff |-> c]
    /\ stats' = statsAfterRawDeletes(stats, Cardinality(raw \ raw'))
    /\ UNCHANGED <<clock, targets, agg, rawLog, pipeVars, rmVars, schedVars, tx>>

\* DB.DeleteAggregatedResultsBefore for any target and tier, with its trigger
TierDeleteAggregatedResultsBefore ==
    /\ \E i \in TierTargets, w \in TierWindows, c \in TierCutoffs :
          /\ agg' = DeleteAggregatedResultsBefore(agg, i, w, c)
          /\ call' = [op |-> "DeleteAggregatedResultsBefore", id |-> i,
                      window |-> w, cutoff |-> c]
    /\ stats' = statsAfterAggDeletes(stats, agg \ agg')
    /\ UNCHANGED <<clock, targets, raw, rawLog, pipeVars, rmVars, schedVars, tx>>

(***************************************************************************)
(* Server.handleDeleteTarget: DB.DeleteTarget deletes the rows of the      *)
(* tables results and targets (results is the table of the earlier         *)
(* scheduler and is not kept here), then Scheduler.RemoveTarget.           *)
(***************************************************************************)
handleDeleteTarget ==
    /\ \E t \in targets :
          /\ targets' = targets \ {t}
          /\ call' = [op |-> "DeleteTarget", id |-> t.id]
          /\ loops' = [l \in 1..Len(loops) |->
                         IF \E h \in stopChans : h.id = t.id /\ h.loop = l
                         THEN [loops[l] EXCEPT !.stopped = TRUE,
                                               !.held = loops[l].count]
                         ELSE loops[l]]
          /\ stopChans' = { h \in stopChans : h.id # t.id }
          /\ resultsTable' = { x \in resultsTable : x.target_id # t.id }
    /\ UNCHANGED <<clock, ticks, raw, agg, rawLog, pipeVars, rmVars, dbVars>>

---------------------------------------------------------------------------
(* The series query: Server.handleGetResults *)

\* policies of the targets that are queried: none, raw only, and the first
\* tiers of the default policies
QueryPolicies ==
    { <<>>,
      <<Policy(0, 604800)>>,
      <<Policy(0, 604800), Policy(60, 15768000)>>,
      <<Policy(0, 604800), Policy(60, 15768000), Policy(300, 31536000)>> }

QueryTargetConfigs ==
    { [id |-> TargetID, timeoutHalf |-> 2, policies |-> ps] : ps \in QueryPolicies }

\* start and duration (end - start) of the requests, in seconds
QueryStarts == {0, 30, 60}
QueryDurations ==
    {0, 1, 3600, 59999, 60000, 60060, 60999, 61000, 299999, 300000}

\* desiredWindow := max(int(durationSeconds/1000.0), 1)
desiredWindow(durationSeconds) == Max({durationSeconds \div PointLimit, 1})

\* sort.Ints
RECURSIVE sortInts(_)
sortInts(S) ==
    IF S = {} THEN <<>> ELSE <<Min(S)>> \o sortInts(S \ {Min(S)})

\* the windows p.Window > 0 of the policies, sorted
availableWindows(policies) ==
    sortInts({ policies[i].window : i \in 1..Len(policies) } \ {0})

\* a loop that keeps the last window of the list, whatever is desired
pickLastWindow(ws, desired, i) ==
    IF ws = <<>> THEN NoWindow ELSE ws[Len(ws)]

\* for _, w := range availableWindows { if w >= desiredWindow { ...; break } }
RECURSIVE pickWindow(_, _, _)
pickWindow(ws, desired, i) ==
    IF i > Len(ws) THEN NoWindow
    ELSE IF ws[i] >= desired THEN ws[i]
    ELSE pickWindow(ws, desired, i + 1)

\* the window selection of handleGetResults
selectWindow(policies, durationSeconds) ==
    LET ws == availableWindows(policies)
        w == pickWindow(ws, desiredWindow(durationSeconds), 1)
    IN IF w = NoWindow /\ Len(ws) > 0 THEN ws[Len(ws)]
       ELSE IF w = NoWindow THEN DefaultWindow
       ELSE w

\* the number of rows of GetRawResults(..., limit): ORDER BY time ASC LIMIT ?
rawPoints(table, targetID, start, end, limit) ==
    Min({Cardinality(GetRawResults(table, targetID, start, end)), limit})

(***************************************************************************)
(* Server.handleGetResults with start and end given: the reply is an error *)
(* when the target has no retention policies, the first PointLimit raw     *)
(* rows for raw=true, and the rows of the selected tier otherwise.         *)
(***************************************************************************)
handleGetResults ==
    /\ \E t \in targets : \E start \in QueryStarts : \E d \in QueryDurations :
       \E rawParam \in BOOLEAN :
          LET req == [op |-> "handleGetResults", start |-> start,
                      duration |-> d, raw |-> rawParam]
          IN IF GetRetentionPolicies(t) = <<>>
             THEN call' = req @@
                       [status |-> 500, window |-> NoWindow, points |-> 0]
             ELSE LET window == selectWindow(GetRetentionPolicies(t), d)
                  IN call' = req @@
                       [status |-> 200, window |-> window,
                        points |->
                          IF rawParam
                          THEN rawPoints(raw, t.id, start, start + d, PointLimit)
                          ELSE Cardinality(GetAggregatedResults(agg, t.id, window,
                                                                start, start + d))]
    /\ UNCHANGED <<clock, storeVars, pipeVars, rmVars, schedVars, dbVars>>

\* start and duration of the raw requests, in seconds
RawQueryStarts == {0, 1}
RawQueryDurations == {1, 2, 100}

\* ORDER BY time ASC: the rows by time, rows of one time in the order written
RECURSIVE orderByTime(_)
orderByTime(S) ==
    IF S = {} THEN <<>>
    ELSE LET first == CHOOSE x \in S :
                         \A y \in S : x.time < y.time
                                       \/ (x.time = y.time /\ x.id <= y.id)
         IN <<first>> \o orderByTime(S \ {first})

\* DB.GetRawResults(targetID, start, end, limit): ... ORDER BY time ASC LIMIT ?
GetRawResultsLimit(table, targetID, start, end, limit) ==
    LET rows == orderByTime(GetRawResults(table, targetID, start, end))
    IN SubSeq(rows, 1, Min({Len(rows), limit}))

\* the APIResult of a raw sample: the fields the handler sets, the others
\* with the zero value of their type (Percentiles is a nil slice)
rawAPIResult(rr) ==
    [Time |-> rr.time, TargetID |-> rr.target_id, ProbeCount |-> 1,
     MinNS |-> rr.latency, MaxNS |-> rr.latency, AvgNS |-> rr.latency,
     P0 |-> rr.latency, P100 |-> rr.latency, P50 |-> rr.latency,
     P1 |-> 0, P25 |-> 0, P75 |-> 0, P99 |-> 0, Percentiles |-> <<>>,
     TimeoutCount |-> 0]

\* Server.handleGetResults with raw=true: the rows of the reply
handleGetResultsRaw ==
    /\ \E t \in targets : \E start \in RawQueryStarts : \E d \in RawQueryDurations :
          LET req == [op |-> "handleGetResultsRaw", start |-> start,
                      end |-> start + d]
          IN IF GetRetentionPolicies(t) = <<>>
             THEN call' = req @@ [status |-> 500, results |-> <<>>]
             ELSE LET rawResults == GetRawResultsLimit(raw, t.id, start, start + d,
                                                       PointLimit)
                  IN call' = req @@
                       [status |-> 200,
                        results |-> [i \in 1..Len(rawResults) |->
                                        rawAPIResult(rawResults[i])]]
    /\ UNCHANGED <<clock, storeVars, pipeVars, rmVars, schedVars, dbVars>>

\* a window of the tier with one sample in it
denseRow(id, w, s) ==
    [target_id |-> id, window_seconds |-> w, time |-> s,
     tdigest |-> 1, timeout_count |-> 0]

\* the table after the RollupManager has run for QueryHorizon seconds:
\* every aligned window of every tier of the target
denseTable(t) ==
    UNION { { denseRow(t.id, w, w * k) : k \in 0..((QueryHorizon \div w) - 1) } :
            w \in WindowsOf(t.policies) }

---------------------------------------------------------------------------
(* Scheduler: the handle map and the probe loops *)

\* the loop AddTarget starts with `go s.runProbeLoop(t, stopCh)`:
\* stopped: stopCh is closed; pc: "select" (the for/select), "wait"
\* (wg.Wait after <-stopCh) or "exited"; sem: slots of the semaphore held,
\* one per probe goroutine inside probeRunner.Run
\* resultsChan: the values sent by probe goroutines and not yet received;
\* count, sum: the aggregator's count and sum of the values received;
\* aggDone: the aggregation goroutine has returned; held (history): the
\* values the aggregator held unsaved when the target was removed
NewLoop(id) ==
    [target_id |-> id, stopped |-> FALSE, pc |-> "select", sem |-> 0,
     resultsChan |-> <<>>, count |-> 0, sum |-> 0, aggDone |-> FALSE,
     held |-> 0]

\* a handle map that is never found to hold the id
NeverHasHandle(id) == FALSE

HasHandle(id) == \E h \in stopChans : h.id = id

\* Scheduler.AddTarget: under s.mu, return when the id has a handle, else
\* store a new stop channel; then `go s.runProbeLoop(t, stopCh)`
AddTarget ==
    /\ \E t \in targets :
          /\ IF HasHandle(t.id)
             THEN UNCHANGED <<stopChans, loops>>
             ELSE /\ Len(loops) < MaxLoops
                  /\ loops' = Append(loops, NewLoop(t.id))
                  /\ stopChans' = stopChans \cup {[id |-> t.id, loop |-> Len(loops) + 1]}
          /\ call' = [op |-> "AddTarget", id |-> t.id,
                      started |-> Len(loops') - Len(loops)]
    /\ UNCHANGED <<clock, ticks, storeVars, pipeVars, rmVars, resultsTable, dbVars>>

\* ValidateRetentionPolicies: nil (TRUE) or an error (FALSE) for the list,
\* which it sorts first
ValidateRetentionPolicies(policies) ==
    LET sorted == sortPolicies(policies)
    IN \A i \in 1..Len(sorted) :
          /\ sorted[i].window >= 0
          /\ (i > 1 /\ sorted[i - 1].window # 0) =>
                sorted[i].window % sorted[i - 1].window = 0

\* the retention_policies of the requests: lists of up to two policies, in
\* any order
CreateWindows == {-1, 0, 2, 3, 4}
CreatePolicyLists ==
    LET P == { Policy(w, 5) : w \in CreateWindows }
    IN {<<>>} \cup { <<a>> : a \in P } \cup { <<a, b>> : a \in P, b \in P }

(***************************************************************************)
(* Server.handleCreateTarget for a request that carries retention_policies *)
(* and no timeout: 400 for a list that is not valid or a request without   *)
(* name, address or probe type; else the target is written with the sorted *)
(* list and the scheduler is told.                                         *)
(***************************************************************************)
handleCreateTarget ==
    /\ \E policies \in CreatePolicyLists : \E complete \in BOOLEAN :
          LET req == [op |-> "handleCreateTarget", policies |-> policies]
          IN IF ~ValidateRetentionPolicies(policies) \/ ~complete
             THEN /\ call' = req @@ [status |-> 400, id |-> 0]
                  /\ UNCHANGED <<targets, stopChans, loops>>
             ELSE LET id == Cardinality(targets) + 1
                  IN /\ Cardinality(targets) < MaxTargets
                     /\ Len(loops) < MaxLoops
                     /\ targets' = targets \cup
                            {[id |-> id, timeoutHalf |-> DefaultTimeoutHalf,
                              policies |-> sortPolicies(policies)]}
                     /\ loops' = Append(loops, NewLoop(id))
                     /\ stopChans' = stopChans \cup
                            {[id |-> id, loop |-> Len(loops) + 1]}
                     /\ call' = req @@ [status |-> 201, id |-> id]
    /\ UNCHANGED <<clock, ticks, raw, agg, rawLog, pipeVars, rmVars, resultsTable, dbVars>>

\* Scheduler.RemoveTarget: close(ch); delete(s.stopChans, id)
RemoveTarget ==
    /\ \E h \in stopChans :
          /\ loops' = [loops EXCEPT ![h.loop].stopped = TRUE,
                                    ![h.loop].held = loops[h.loop].count]
          /\ stopChans' = stopChans \ {h}
          /\ call' = [op |-> "RemoveTarget", id |-> h.id]
    /\ UNCHANGED <<clock, ticks, storeVars, pipeVars, rmVars, resultsTable, dbVars>>

\* the retention_policies of the update requests; <<>> stands for a request
\* without the field and for one that carries the list []: both leave
\* newPolicies empty and store a list GetRetentionPolicies rejects
UpdatePolicyLists ==
    { <<>>,
      <<Policy(0, 5)>>,
      <<Policy(2, 6), Policy(0, 5)>>,
      <<Policy(0, 5), Policy(4, 8)>>,
      <<Policy(0, 5), Policy(3, 6), Policy(2, 6)>> }

\* the tiers of the old list the loop over oldPolicies deletes: the windows
\* that are not in newWindowSet, the raw tier (0) left alone
removedWindows(oldPolicies, newPolicies) ==
    WindowsOf(oldPolicies) \ { newPolicies[i].window : i \in 1..Len(newPolicies) }

\* the table after DeleteAggregatedResultsByWindow for each window of ws
RECURSIVE deleteTiers(_, _, _)
deleteTiers(table, targetID, ws) ==
    IF ws = {} THEN table
    ELSE LET w == CHOOSE x \in ws : TRUE
         IN deleteTiers(DeleteAggregatedResultsByWindow(table, targetID, w),
                        targetID, ws \ {w})

(***************************************************************************)
(* Server.handleUpdateTarget for a request that repeats the timeout of the *)
(* target: 400 for a list that is not valid or a request without name,     *)
(* address or probe type; else the tiers of the windows the new list drops *)
(* are deleted, the target is overwritten with the sorted list, and the    *)
(* scheduler stops the probe loop of the id and starts a new one.          *)
(***************************************************************************)
handleUpdateTarget ==
    /\ \E existingTarget \in targets : \E policies \in UpdatePolicyLists :
       \E complete \in BOOLEAN :
          LET id == existingTarget.id
              req == [op |-> "handleUpdateTarget", id |-> id, policies |-> policies]
              removed == removedWindows(GetRetentionPolicies(existingTarget),
                                        policies)
          IN IF ~ValidateRetentionPolicies(policies) \/ ~complete
             THEN /\ call' = req @@ [status |-> 400, removed |-> {}]
                  /\ UNCHANGED <<targets, agg, stats, stopChans, loops>>
             ELSE /\ Len(loops) < MaxLoops
                  /\ agg' = deleteTiers(agg, id, removed)
                  /\ stats' = statsAfterAggDeletes(stats, agg \ agg')
                  /\ targets' = (targets \ {existingTarget}) \cup
                         {[existingTarget EXCEPT
                              !.policies = sortPolicies(policies)]}
                  /\ loops' = Append([l \in 1..Len(loops) |->
                                        IF \E h \in stopChans :
                                               h.id = id /\ h.loop = l
                                        THEN [loops[l] EXCEPT
                                                 !.stopped = TRUE,
                                                 !.held = loops[l].count]
                                        ELSE loops[l]],
                                     NewLoop(id))
                  /\ stopChans' = { h \in stopChans : h.id # id } \cup
                         {[id |-> id, loop |-> Len(loops) + 1]}
                  /\ call' = req @@ [status |-> 200, removed |-> removed]
    /\ UNCHANGED <<clock, ticks, raw, rawLog, pipeVars, rmVars, resultsTable, tx>>

\* case <-probeTicker.Chan(): runProbe() takes a slot of sem and starts the
\* probe goroutine, or skips the tick when the 5 slots are taken
LoopProbeTick ==
    /\ \E l \in 1..Len(loops) :
          /\ loops[l].pc = "select"
          /\ loops[l].sem < ProbeCap
          /\ loops' = [loops EXCEPT ![l].sem = @ + 1]
    /\ UNCHANGED <<clock, ticks, storeVars, pipeVars, rmVars, stopChans, resultsTable,
                   dbVars, call>>

\* no tick has fired in any loop
NoTicks == [l \in 1..MaxLoops |-> [fired |-> 0, started |-> 0]]

\* a semaphore that always has room
acquireAlways(sem) == TRUE

\* `case sem <- struct{}{}:` is ready when fewer than 5 slots are held
acquire(sem) == sem < ProbeCap

(***************************************************************************)
(* runProbe, both branches of its select, with the ticks counted: the slot *)
(* is taken, wg.Add(1) and the probe goroutine started, or (default) the   *)
(* tick is logged as skipped and nothing is kept of it.                    *)
(***************************************************************************)
runProbe ==
    /\ \E l \in 1..Len(loops) :
          /\ loops[l].pc = "select"
          /\ ticks[l].fired < MaxTicks
          /\ IF acquire(loops[l].sem)
             THEN /\ loops' = [loops EXCEPT ![l].sem = @ + 1]
                  /\ ticks' = [ticks EXCEPT ![l].fired = @ + 1,
                                            ![l].started = @ + 1]
             ELSE /\ loops' = loops
                  /\ ticks' = [ticks EXCEPT ![l].fired = @ + 1]
    /\ UNCHANGED <<clock, storeVars, pipeVars, rmVars, stopChans, resultsTable,
                   dbVars, call>>

\* what probeRunner.Run returns: a latency, the error "probe timed out
\* after ..." of probe.Run, or another error
ProbeOutcomes ==
    { [kind |-> "success", latency |-> l] : l \in Latencies \ {TimeoutSentinel} }
       \cup { [kind |-> "timeout"], [kind |-> "error"] }

\* the values the probe goroutine sends on resultsChan for an outcome:
\* `if err != nil { log.Printf(...); return }`, else `resultsChan <- res`
sentFor(o) == IF o.kind = "success" THEN <<o.latency>> ELSE <<>>

\* a probe goroutine of loop l returns from Run with outcome o: the result
\* is sent when there is one (the send waits for room in resultsChan), then
\* the deferred release of the slot and wg.Done
runProbeReturns(l, o) ==
    /\ loops[l].sem > 0
    /\ Len(loops[l].resultsChan) + Len(sentFor(o)) <= MaxBuffered
    /\ loops' = [loops EXCEPT ![l].sem = @ - 1,
                              ![l].resultsChan = @ \o sentFor(o)]
    /\ UNCHANGED <<clock, ticks, storeVars, pipeVars, rmVars, stopChans, resultsTable,
                   dbVars, call>>

LoopProbeDone ==
    \E l \in 1..Len(loops), o \in ProbeOutcomes : runProbeReturns(l, o)

\* the aggregation goroutine, case val, ok := <-resultsChan
LoopAggregate ==
    /\ \E l \in 1..Len(loops) :
          /\ loops[l].resultsChan # <<>>
          /\ loops[l].count < MaxProbes
          /\ loops' = [loops EXCEPT ![l].resultsChan = Tail(@),
                                    ![l].count = @ + 1,
                                    ![l].sum = @ + Head(loops[l].resultsChan)]
    /\ UNCHANGED <<clock, ticks, storeVars, pipeVars, rmVars, stopChans, resultsTable,
                   dbVars, call>>

\* the aggregation goroutine, case <-commitTicker.Chan() with count > 0
\* (count == 0: continue): AddResult saves a row of the values received and
\* the statistics are reset; the ticker is stopped when the loop returns
LoopCommit ==
    /\ \E l \in 1..Len(loops) :
          /\ ~loops[l].aggDone
          /\ loops[l].pc # "exited"
          /\ loops[l].count > 0
          /\ Cardinality(resultsTable) < MaxProbes
          /\ resultsTable' = resultsTable \cup
                 {[rowid |-> Max({0} \cup { x.rowid : x \in resultsTable }) + 1,
                   target_id |-> loops[l].target_id, time |-> clock,
                   tdigest |-> loops[l].count]}
          /\ loops' = [loops EXCEPT ![l].count = 0, ![l].sum = 0, ![l].held = 0]
    /\ UNCHANGED <<clock, ticks, storeVars, pipeVars, rmVars, stopChans, dbVars, call>>

\* the aggregation goroutine, case val, ok := <-resultsChan with !ok: the
\* channel is closed and drained, and the goroutine returns
LoopAggregateExit ==
    /\ \E l \in 1..Len(loops) :
          /\ ~loops[l].aggDone
          /\ loops[l].pc = "exited"
          /\ loops[l].resultsChan = <<>>
          /\ loops' = [loops EXCEPT ![l].aggDone = TRUE]
    /\ UNCHANGED <<clock, ticks, storeVars, pipeVars, rmVars, stopChans, resultsTable,
                   dbVars, call>>

\* case <-stopCh: the loop goes on to wg.Wait()
LoopStop ==
    /\ \E l \in 1..Len(loops) :
          /\ loops[l].pc = "select"
          /\ loops[l].stopped
          /\ loops' = [loops EXCEPT ![l].pc = "wait"]
    /\ UNCHANGED <<clock, ticks, storeVars, pipeVars, rmVars, stopChans, resultsTable,
                   dbVars, call>>

\* a WaitGroup that is not waited for
wgWaitSkipped(sem) == TRUE

\* wg.Wait() returns when every probe goroutine has called wg.Done(): each
\* holds its slot of sem from wg.Add(1) until it returns
wgWait(sem) == sem = 0

\* wg.Wait() returns; close(resultsChan); return
LoopExit ==
    /\ \E l \in 1..Len(loops) :
          /\ loops[l].pc = "wait"
          /\ wgWait(loops[l].sem)
          /\ loops' = [loops EXCEPT ![l].pc = "exited"]
    /\ UNCHANGED <<clock, ticks, storeVars, pipeVars, rmVars, stopChans, resultsTable,
                   dbVars, call>>

\* probe invocations of target id that have started and not yet returned
RECURSIVE ProbesInFlightFrom(_, _)
ProbesInFlightFrom(id, l) ==
    IF l > Len(loops) THEN 0
    ELSE (IF loops[l].target_id = id THEN loops[l].sem ELSE 0)
         + ProbesInFlightFrom(id, l + 1)

ProbesInFlight(id) == ProbesInFlightFrom(id, 1)

---------------------------------------------------------------------------
(* Specifications *)

Init ==
    /\ clock = 0
    /\ targets \in { {c} : c \in TargetConfigs }
    /\ raw = {}
    /\ agg = {}
    /\ rawLog = {}
    /\ probes = 0
    /\ inflight = {}
    /\ buffer = {}
    /\ bufSince = ZeroTime
    /\ dropped = {}
    /\ rmPc = "idle"
    /\ rmTarget = NoTarget
    /\ rmPolicies = <<>>
    /\ rmIdx = 0
    /\ rmLastWindow = 0
    /\ lastSeen = [w \in AllWindows |-> ZeroTime]
    /\ rmFailed = [w \in AllWindows |-> {}]
    /\ rt = NotStarted
    /\ mgrStop = [rollup |-> "no", retention |-> "no"]
    /\ stopChans = {}
    /\ resultsTable = {}
    /\ loops = <<>>
    /\ ticks = NoTicks
    /\ stats = InitStats
    /\ tx = NoTx
    /\ call = NoCall

\* the store, the write path, the RollupManager and the RetentionManager
Next ==
    \/ Tick
    \/ ProbeStart
    \/ ProbeReturn
    \/ ProbeError
    \/ Flush
    \/ RollupBegin
    \/ RollupPolicy
    \/ enforceRetention

Spec == Init /\ [][Next]_vars

\* the same without the RetentionManager
NextRollup ==
    \/ Tick
    \/ ProbeStart
    \/ ProbeReturn
    \/ ProbeError
    \/ Flush
    \/ RollupBegin
    \/ RollupPolicy

SpecRollup == Init /\ [][NextRollup]_vars

\* the write path alone: probes, the BatchWriter and its flushes
NextWriter ==
    \/ Tick
    \/ ProbeStart
    \/ ProbeReturn
    \/ ProbeReturnFlushFails
    \/ ProbeError
    \/ Flush
    \/ FlushFails
    \/ FlushEmpty

SpecWriter == Init /\ [][NextWriter]_vars

---------------------------------------------------------------------------
(* The t-digests of aggregateWindow with their values.  Below the          *)
(* compression of 100 a digest holds one centroid for each value added, so *)
(* it is kept as the number of samples of each value.                      *)

\* the latencies of the samples: a timeout and two values
DigestLatencies == {TimeoutSentinel, 100, 200}

\* the cascaded tier and its source tier
CascadeWindow == CascadePolicies[3].window
CascadeSource == CascadePolicies[2].window

\* the raw samples an interval [0, CascadeWindow) may hold: one probe a
\* second at most
DigestSamples ==
    LET all == { [target_id |-> TargetID, time |-> tm, latency |-> l] :
                   tm \in 0..(CascadeWindow - 1), l \in DigestLatencies }
    IN { S \in SUBSET all : \A a, b \in S : a.time = b.time => a = b }

\* tdigest.New(tdigest.Compression(100))
NewDigest == [v \in DigestLatencies \ {TimeoutSentinel} |-> 0]

\* TDigest.Add(value)
tdAdd(td, value) == [td EXCEPT ![value] = @ + 1]

\* a Merge that leaves the digest as it was
tdMergeNothing(td, other) == td

\* TDigest.Merge(other): every centroid of other is added with its weight
tdMerge(td, other) == [v \in DOMAIN td |-> td[v] + other[v]]

\* TDigest.Count()
tdCount(td) ==
    LET RECURSIVE sum(_)
        sum(V) == IF V = {} THEN 0
                  ELSE LET v == CHOOSE x \in V : TRUE IN td[v] + sum(V \ {v})
    IN sum(DOMAIN td)

\* TDigest.Quantile(q / 100) of a digest with one centroid for each value:
\* the value at rank q, and no value (NaN) for an empty digest
Quantile(td, q) ==
    IF tdCount(td) = 0 THEN {}
    ELSE LET below(v) == tdCount([x \in DOMAIN td |-> IF x <= v THEN td[x] ELSE 0])
         IN { Min({ v \in DOMAIN td :
                      td[v] > 0 /\ 100 * below(v) >= q * tdCount(td) }) }

\* the quantiles the server reads from a digest, in percent
QuantileGrid == {0, 1, 25, 50, 75, 99, 100}
Quantiles(td) == [q \in QuantileGrid |-> Quantile(td, q)]

\* db.SerializeTDigest: the centroids (mean, weight) in ascending order
\* after the header of the encoding
SerializeTDigest(td) ==
    LET RECURSIVE centroids(_)
        centroids(V) ==
            IF V = {} THEN <<>>
            ELSE IF td[Min(V)] = 0 THEN centroids(V \ {Min(V)})
            ELSE <<<<Min(V), td[Min(V)]>>>> \o centroids(V \ {Min(V)})
    IN <<"header">> \o centroids(DOMAIN td)

\* db.DeserializeTDigest: a new digest for no bytes, else the centroids
DeserializeTDigest(data) ==
    IF Len(data) = 0 THEN NewDigest
    ELSE [v \in DOMAIN NewDigest |->
            IF \E i \in 2..Len(data) : data[i][1] = v
            THEN (CHOOSE c \in { data[i] : i \in 2..Len(data) } : c[1] = v)[2]
            ELSE 0]

\* aggregateWindow with sourceWindow = 0 on the samples of [start, end)
RECURSIVE addRaws(_, _)
addRaws(td, raws) ==
    IF raws = {} THEN td
    ELSE LET r == CHOOSE x \in raws : TRUE
         IN addRaws(IF r.latency = TimeoutSentinel THEN td
                    ELSE tdAdd(td, r.latency), raws \ {r})

aggregateFromRaw(samples, windowSeconds, start) ==
    LET raws == { r \in samples : r.time >= start /\ r.time < start + windowSeconds }
    IN IF raws = {}
       THEN [time |-> start, window_seconds |-> windowSeconds,
             tdigest_data |-> SerializeTDigest(NewDigest), timeout_count |-> 0]
       ELSE [time |-> start, window_seconds |-> windowSeconds,
             tdigest_data |-> SerializeTDigest(addRaws(NewDigest, raws)),
             timeout_count |->
                 Cardinality({ r \in raws : r.latency = TimeoutSentinel })]

\* aggregateWindow with a source tier on the rows of [start, end)
RECURSIVE mergeResults(_, _)
mergeResults(td, results) ==
    IF results = {} THEN td
    ELSE LET res == CHOOSE x \in results : TRUE
         IN mergeResults(IF Len(res.tdigest_data) > 0
                         THEN tdMerge(td, DeserializeTDigest(res.tdigest_data))
                         ELSE td, results \ {res})

aggregateFromSubRollup(rows, windowSeconds, start) ==
    LET results == { x \in rows : x.time >= start /\ x.time < start + windowSeconds }
    IN IF results = {}
       THEN [time |-> start, window_seconds |-> windowSeconds,
             tdigest_data |-> SerializeTDigest(NewDigest), timeout_count |-> 0]
       ELSE [time |-> start, window_seconds |-> windowSeconds,
             tdigest_data |-> SerializeTDigest(mergeResults(NewDigest, results)),
             timeout_count |-> SumTimeouts(results)]

\* the source tier is rolled up from the samples, window by window, and the
\* cascaded window [0, CascadeWindow) is built from the windows of the source
\* tier and, for comparison, directly from the samples
aggregateCascade ==
    /\ \E samples \in DigestSamples :
          LET sourceRows ==
                  { aggregateFromRaw(samples, CascadeSource, start) :
                      start \in { k * CascadeSource :
                                    k \in 0..(CascadeWindow \div CascadeSource - 1) } }
              merged == aggregateFromSubRollup(sourceRows, CascadeWindow, 0)
              direct == aggregateFromRaw(samples, CascadeWindow, 0)
          IN call' = [op |-> "aggregateCascade", samples |-> samples,
                      sources |-> { DeserializeTDigest(x.tdigest_data) : x \in sourceRows },
                      merged |-> DeserializeTDigest(merged.tdigest_data),
                      direct |-> DeserializeTDigest(direct.tdigest_data)]
    /\ UNCHANGED <<clock, storeVars, pipeVars, rmVars, schedVars, dbVars>>

NextDigest == aggregateCascade

SpecDigest == Init /\ [][NextDigest]_vars

\* targets are created
NextCreate == handleCreateTarget

SpecCreate == Init /\ [][NextCreate]_vars

\* raw samples written and requested with raw=true
NextRawQuery ==
    \/ Tick
    \/ ProbeStart
    \/ ProbeReturn
    \/ Flush
    \/ handleGetResultsRaw

SpecRawQuery == Init /\ [][NextRawQuery]_vars

\* the RollupManager with batches that fail, probes that return, no retention
NextRollupFails ==
    \/ Tick
    \/ ProbeStart
    \/ ProbeReturn
    \/ Flush
    \/ RollupBegin
    \/ RollupPolicy
    \/ RollupPolicyFails

\* one target, with the cascade of tiers 2 and 4
InitRollupFails ==
    /\ Init
    /\ \A t \in targets : t.timeoutHalf = 2 /\ t.policies = CascadePolicies

SpecRollupFails == InitRollupFails /\ [][NextRollupFails]_vars

\* the Scheduler: AddTarget, RemoveTarget and the probe loops
NextSched ==
    \/ AddTarget
    \/ RemoveTarget
    \/ LoopProbeTick
    \/ LoopProbeDone
    \/ LoopAggregate
    \/ LoopCommit
    \/ LoopAggregateExit
    \/ LoopStop
    \/ LoopExit

SpecSched == Init /\ [][NextSched]_vars

\* one probe loop, its ticks counted, and its probes
NextTicks ==
    \/ AddTarget
    \/ runProbe
    \/ LoopProbeDone
    \/ LoopAggregate

SpecTicks == Init /\ [][NextTicks]_vars

\* AddTarget and RemoveTarget of one target id interleaved with its probe
\* ticks and probe completions
NextRace ==
    \/ AddTarget
    \/ RemoveTarget
    \/ LoopProbeTick
    \/ LoopProbeDone
    \/ LoopStop
    \/ LoopExit

SpecRace == Init /\ [][NextRace]_vars

\* the handle map: the calls that add and remove handles and the loops
\* they start and stop, the aggregation goroutines left aside
NextHandles ==
    \/ AddTarget
    \/ RemoveTarget
    \/ handleDeleteTarget
    \/ LoopProbeTick
    \/ LoopProbeDone
    \/ LoopStop
    \/ LoopExit

SpecHandles == Init /\ [][NextHandles]_vars

\* a store that has been rolled up for QueryHorizon seconds, and a request
InitQuery ==
    /\ clock = QueryHorizon
    /\ targets \in { {c} : c \in QueryTargetConfigs }
    /\ raw = {}
    /\ agg = UNION { denseTable(t) : t \in targets }
    /\ rawLog = {}
    /\ probes = 0
    /\ inflight = {}
    /\ buffer = {}
    /\ bufSince = ZeroTime
    /\ dropped = {}
    /\ rmPc = "idle"
    /\ rmTarget = NoTarget
    /\ rmPolicies = <<>>
    /\ rmIdx = 0
    /\ rmLastWindow = 0
    /\ lastSeen = [w \in AllWindows |-> ZeroTime]
    /\ rmFailed = [w \in AllWindows |-> {}]
    /\ rt = NotStarted
    /\ mgrStop = [rollup |-> "no", retention |-> "no"]
    /\ stopChans = {}
    /\ resultsTable = {}
    /\ loops = <<>>
    /\ ticks = NoTicks
    /\ stats = statsOf(raw, agg)
    /\ tx = NoTx
    /\ call = NoCall

NextQuery == handleGetResults

SpecQuery == InitQuery /\ [][NextQuery]_vars

\* the calls on the store
NextStore ==
    \/ RawTxBegin
    \/ RawTxExec
    \/ RawTxRollback
    \/ RawTxCommit
    \/ StoreAddAggregatedResult
    \/ StoreDeleteRawResultsBefore
    \/ StoreDeleteAggregatedResultsBefore
    \/ handleDeleteTarget

\* an empty store and one target
InitStore ==
    /\ Init
    /\ \A t \in targets : t.timeoutHalf = 2 /\ t.policies = CascadePolicies

SpecStore == InitStore /\ [][NextStore]_vars

\* a store that holds rows of two tiers and samples, of two targets
InitTiers ==
    /\ clock = 0
    /\ targets = { [id |-> i, timeoutHalf |-> 2, policies |-> CascadePolicies] :
                     i \in TierTargets }
    /\ raw = TierRawRows
    /\ agg \in SUBSET TierRows
    /\ rawLog = raw
    /\ probes = Cardinality(TierRawRows)
    /\ inflight = {}
    /\ buffer = {}
    /\ bufSince = ZeroTime
    /\ dropped = {}
    /\ rmPc = "idle"
    /\ rmTarget = NoTarget
    /\ rmPolicies = <<>>
    /\ rmIdx = 0
    /\ rmLastWindow = 0
    /\ lastSeen = [w \in AllWindows |-> ZeroTime]
    /\ rmFailed = [w \in AllWindows |-> {}]
    /\ rt = NotStarted
    /\ mgrStop = [rollup |-> "no", retention |-> "no"]
    /\ stopChans = {}
    /\ resultsTable = {}
    /\ loops = <<>>
    /\ ticks = NoTicks
    /\ stats = statsOf(raw, agg)
    /\ tx = NoTx
    /\ call = NoCall

\* the deletions by cutoff, on that store
NextTiers ==
    \/ TierDeleteRawResultsBefore
    \/ TierDeleteAggregatedResultsBefore

SpecTiers == InitTiers /\ [][NextTiers]_vars

\* the rows of the first tier a store holds for the four seconds before
\* time 0, each with a digest that parses (weight 1) or with one that does not
CorruptSources ==
    { { [target_id |-> TargetID, window_seconds |-> CascadeSource, time |-> -4,
         tdigest |-> a, timeout_count |-> 0],
        [target_id |-> TargetID, window_seconds |-> CascadeSource, time |-> -2,
         tdigest |-> b, timeout_count |-> 1] } :
      a \in {1, CorruptBlob}, b \in {1, CorruptBlob} }

\* the samples those rows were built from
CorruptRaw ==
    { [id |-> 1, target_id |-> TargetID, time |-> -4, latency |-> 100],
      [id |-> 2, target_id |-> TargetID, time |-> -2, latency |-> 100],
      [id |-> 3, target_id |-> TargetID, time |-> -1, latency |-> TimeoutSentinel] }

\* the RollupManager is started on that store, the second tier not yet built
InitCorrupt ==
    /\ clock = 5
    /\ targets \in { {c} : c \in { x \in TargetConfigs : x.policies = CascadePolicies } }
    /\ raw = CorruptRaw
    /\ agg \in CorruptSources
    /\ rawLog = CorruptRaw
    /\ probes = Cardinality(CorruptRaw)
    /\ inflight = {}
    /\ buffer = {}
    /\ bufSince = ZeroTime
    /\ dropped = {}
    /\ rmPc = "idle"
    /\ rmTarget = NoTarget
    /\ rmPolicies = <<>>
    /\ rmIdx = 0
    /\ rmLastWindow = 0
    /\ lastSeen = [w \in AllWindows |-> GetLastRollupTime(agg, TargetID, w)]
    /\ rmFailed = [w \in AllWindows |-> {}]
    /\ rt = NotStarted
    /\ mgrStop = [rollup |-> "no", retention |-> "no"]
    /\ stopChans = {}
    /\ resultsTable = {}
    /\ loops = <<>>
    /\ ticks = NoTicks
    /\ stats = statsOf(raw, agg)
    /\ tx = NoTx
    /\ call = NoCall

NextCorrupt ==
    \/ Tick
    \/ RollupBegin
    \/ RollupPolicy

SpecCorrupt == InitCorrupt /\ [][NextCorrupt]_vars

\* the RollupManager on a store whose first tier is built up to time 0,
\* with fetches of source rows that fail
InitFetchFails ==
    /\ InitCorrupt
    /\ \A x \in agg : x.tdigest # CorruptBlob

NextFetchFails ==
    \/ Tick
    \/ RollupBegin
    \/ RollupPolicy
    \/ RollupPolicyFetchFails

SpecFetchFails == InitFetchFails /\ [][NextFetchFails]_vars

\* the RollupManager on that store while the target is updated
NextUpdate ==
    \/ Tick
    \/ RollupBegin
    \/ RollupPolicy
    \/ handleUpdateTarget

SpecUpdate == InitFetchFails /\ [][NextUpdate]_vars

\* the requests that write a target: create and update
NextBoundary ==
    \/ handleCreateTarget
    \/ handleUpdateTarget

SpecBoundary == Init /\ [][NextBoundary]_vars

\* the probe loops with their aggregation goroutines while targets are
\* deleted at the HTTP boundary
NextDelete ==
    \/ AddTarget
    \/ handleDeleteTarget
    \/ LoopProbeTick
    \/ LoopProbeDone
    \/ LoopAggregate
    \/ LoopCommit
    \/ LoopAggregateExit
    \/ LoopStop
    \/ LoopExit

SpecDelete == Init /\ [][NextDelete]_vars

\* the injected clock is advanced only between the ticks of the
\* RollupManager: every pass of processRollups runs at one logical time
TickBetweenPasses ==
    /\ rmPc = "idle"
    /\ Tick

\* the RollupManager alone on the seeded store, tick after tick
NextSameTime ==
    \/ TickBetweenPasses
    \/ RollupBegin
    \/ RollupPolicy

SpecSameTime == InitCorrupt /\ [][NextSameTime]_vars

\* the whole program with one target, of timeout 1 s and cascading tiers
SpecCascade == InitStore /\ [][Next]_vars

\* the samples of a store the managers are started on
SeededRaw ==
    { [id |-> 1, target_id |-> TargetID, time |-> 0, latency |-> 100],
      [id |-> 2, target_id |-> TargetID, time |-> 3, latency |-> TimeoutSentinel] }

\* the managers are created on a store that holds samples, at a time when
\* a window of the first tier has closed and a sample is past its retention
InitStop ==
    /\ clock = 7
    /\ targets = { [id |-> TargetID, timeoutHalf |-> 2, policies |-> CascadePolicies] }
    /\ raw = SeededRaw
    /\ agg = {}
    /\ rawLog = SeededRaw
    /\ probes = Cardinality(SeededRaw)
    /\ inflight = {}
    /\ buffer = {}
    /\ bufSince = ZeroTime
    /\ dropped = {}
    /\ rmPc = "idle"
    /\ rmTarget = NoTarget
    /\ rmPolicies = <<>>
    /\ rmIdx = 0
    /\ rmLastWindow = 0
    /\ lastSeen = [w \in AllWindows |-> ZeroTime]
    /\ rmFailed = [w \in AllWindows |-> {}]
    /\ rt = NotStarted
    /\ mgrStop = [rollup |-> "no", retention |-> "no"]
    /\ stopChans = {}
    /\ resultsTable = {}
    /\ loops = <<>>
    /\ ticks = NoTicks
    /\ stats = statsAfterRawInserts(InitStats, Cardinality(SeededRaw))
    /\ tx = NoTx
    /\ call = NoCall

\* the two managers at work and stopped, the clock standing still: the
\* RetentionManager makes its initial run and takes no tick
NextStop ==
    \/ RollupBegin
    \/ RollupPolicy
    \/ RollupStop
    \/ RollupExit
    \/ RollupStopReturns
    \/ RetentionStart
    \/ RetentionInitial
    \/ RetentionStop
    \/ RetentionExit
    \/ RetentionStopReturns

\* run() goes on and takes the stop channel in the end: the select chooses
\* at random among the ready cases, and wg.Wait() returns once run() has
FairStop ==
    /\ WF_vars(RollupPolicy)
    /\ SF_vars(RollupExit)
    /\ WF_vars(RollupStopReturns)
    /\ WF_vars(RetentionInitial)
    /\ SF_vars(RetentionExit)
    /\ WF_vars(RetentionStopReturns)

SpecStop == InitStop /\ [][NextStop]_vars /\ FairStop

\* the RetentionManager over hours, with samples written and windows stored
NextRetention ==
    \/ RetentionStart
    \/ RetentionInitial
    \/ RetentionTick
    \/ HalfHour
    \/ ProbeStart
    \/ ProbeReturn
    \/ Flush

SpecRetention == InitStore /\ [][NextRetention]_vars

---------------------------------------------------------------------------
(* Properties *)

\* the key of a row of aggregated_results
SameKey(x, y) ==
    /\ x.target_id = y.target_id
    /\ x.window_seconds = y.window_seconds
    /\ x.time = y.time

\* processRollups: the tier a window size is built from is the policy before
\* it in the sorted list (lastWindow); 0 is the raw tier
SourceWindow(policies, w) ==
    LET smaller == { policies[i].window : i \in 1..Len(policies) } \cap 0..(w - 1)
    IN IF smaller = {} THEN 0 ELSE Max(smaller)

\* the rows a step writes into aggregated_results
Emitted == agg' \ agg

\* the rows a step stores under a key that had no row
FirstStored == { x \in agg' : ~\E y \in agg : SameKey(x, y) }

\* the raw samples ever committed that fall into the window of row a
SamplesIn(a) ==
    { r \in rawLog : r.target_id = a.target_id
                     /\ r.time >= a.time /\ r.time < a.time + a.window_seconds }

\* the policies of the target of row a
PoliciesOf(a) ==
    LET t == CHOOSE x \in targets : x.id = a.target_id IN t.policies

(***************************************************************************)
(* C1, as stated: for every target and tier, last_rollup_time at the end   *)
(* of a rollup tick is never below its value at the end of the tick        *)
(* before, whatever RetentionManager runs and raw commits happen between.  *)
(***************************************************************************)
C1_LastRollupMonotonic ==
    [][\A w \in AllWindows : lastSeen'[w] >= lastSeen[w]]_vars

(***************************************************************************)
(* C1, amended: no step lowers last_rollup_time of a tier, except a        *)
(* RetentionManager run that deletes the tier's latest window because it   *)
(* is older than the tier's retention.                                     *)
(***************************************************************************)
C1_LastRollupLoweredOnlyByRetention ==
    [][\A t \in targets : \A w \in WindowsOf(t.policies) :
          GetLastRollupTime(agg', t.id, w) < GetLastRollupTime(agg, t.id, w)
              => GetLastRollupTime(agg, t.id, w)
                     < clock - RetentionOf(t.policies, w)]_vars

\* a tick has moved a tier past the value the tick before left
C1_Advanced ==
    \E w \in AllWindows :
        /\ lastSeen[w] # ZeroTime
        /\ GetLastRollupTime(agg, TargetID, w) > lastSeen[w]
        /\ raw # {}

(***************************************************************************)
(* C2: every window the RollupManager emits for a target with timeout T    *)
(* ends at or before now - (T + 3 s), T taken as the real number it is     *)
(* (both sides doubled: the timeout is kept in half seconds).              *)
(***************************************************************************)
C2_EmittedWindowClosed ==
    [][\A a \in Emitted : \A t \in targets :
          t.id = a.target_id =>
              2 * (a.time + a.window_seconds)
                  <= 2 * clock - (t.timeoutHalf + 2 * CommitBuffer)]_vars

(***************************************************************************)
(* C3: a window [s, s+W) of a cascaded tier is stored only once every      *)
(* window of its source tier S inside [s, s+W) is stored: no window of     *)
(* tier S is first stored inside a tier-W window that is already there.    *)
(***************************************************************************)
C3_SourceWindowsFirst ==
    [][\A x \in FirstStored : \A y \in agg :
          ~(/\ y.target_id = x.target_id
            /\ x.window_seconds # 0
            /\ SourceWindow(PoliciesOf(y), y.window_seconds) = x.window_seconds
            /\ x.time >= y.time
            /\ x.time < y.time + y.window_seconds)]_vars

(***************************************************************************)
(* C4: no raw sample is committed with a timestamp inside a window of the  *)
(* first aggregated tier that has already been emitted.                    *)
(***************************************************************************)
C4_NoSampleIntoEmittedWindow ==
    [][\A r \in raw' \ raw : \A a \in agg :
          ~(/\ a.target_id = r.target_id
            /\ SourceWindow(PoliciesOf(a), a.window_seconds) = 0
            /\ r.time >= a.time
            /\ r.time < a.time + a.window_seconds)]_vars

\* a sample sent right after an emitted raw-tier window is in the store
C4_SampleNextToWindow ==
    \E r \in raw : \E a \in agg :
        /\ a.target_id = r.target_id
        /\ SourceWindow(PoliciesOf(a), a.window_seconds) = 0
        /\ a.tdigest + a.timeout_count > 0
        /\ r.time >= a.time + a.window_seconds

(***************************************************************************)
(* C5: the start of every stored window is a multiple of its window size   *)
(* in Unix seconds, the first window seeded from the earliest raw sample   *)
(* included.                                                               *)
(***************************************************************************)
C5_WindowAligned ==
    \A a \in agg : a.time % a.window_seconds = 0

(***************************************************************************)
(* C6: the timeout_count of a stored window, built from raw samples or     *)
(* cascaded, is the number of raw samples with latency -1 in its interval. *)
(***************************************************************************)
C6_TimeoutCount ==
    \A a \in agg :
        a.timeout_count
            = Cardinality({ r \in SamplesIn(a) : r.latency = TimeoutSentinel })

C8_ProbeCap ==
    \A t \in targets : ProbesInFlight(t.id) <= ProbeCap

(***************************************************************************)
(* C9: one pass of the RollupManager over a tier stores every pending      *)
(* window of the tier: each window from the next start on, one window size *)
(* apart, that ends at or before the cutoff.                               *)
(***************************************************************************)
C9_CatchUpInOnePass ==
    [][(rmPc = "run" /\ (rmIdx' # rmIdx \/ rmPc' = "idle"))
          => LET w == rmPolicies[rmIdx].window
                 first == nextWindowStartOf(rmTarget, w)
             IN (w # 0 /\ first # ZeroTime) =>
                    \A s \in first..clock :
                        ((s - first) % w = 0 /\ s + w <= Cutoff(rmTarget, clock))
                            => \E a \in agg' :
                                   /\ a.target_id = rmTarget.id
                                   /\ a.window_seconds = w
                                   /\ a.time = s]_vars

\* the running tick has stored two windows of one tier that were not there
\* when the tick before ended
C9_TwoWindowsInOneTick ==
    /\ rmPc = "run"
    /\ \E w \in AllWindows : \E a, b \in agg :
          /\ a.window_seconds = w
          /\ b.window_seconds = w
          /\ a.time > lastSeen[w]
          /\ b.time > a.time

(***************************************************************************)
(* C10: the sample count of a cascaded window is the sum of the counts of  *)
(* the stored source-tier windows inside it, and that is the number of     *)
(* non-timeout raw samples in its interval.                                *)
(***************************************************************************)
C10_CascadeCount ==
    \A a \in agg :
        LET src == SourceWindow(PoliciesOf(a), a.window_seconds)
        IN src # 0 =>
               /\ a.tdigest
                     = SumCounts(GetAggregatedResults(agg, a.target_id, src,
                                     a.time, a.time + a.window_seconds))
               /\ a.tdigest
                     = Cardinality({ r \in SamplesIn(a) :
                                         r.latency # TimeoutSentinel })

\* the window set A of the queried target: its non-raw window sizes
WindowSet == UNION { WindowsOf(t.policies) : t \in targets }

\* min{w in A : w >= max(1, floor(D/1000))}, or max(A), or 60 if A is empty
PlannedWindow(A, D) ==
    LET need == IF D \div 1000 >= 1 THEN D \div 1000 ELSE 1
        fit == { w \in A : w >= need }
    IN IF fit # {} THEN Min(fit)
       ELSE IF A # {} THEN Max(A)
       ELSE 60

C12_AtMostThousandPoints ==
    (/\ call.op = "handleGetResults"
     /\ call.status = 200
     /\ \E w \in WindowSet : w * 1000 >= call.duration)
        => call.points <= 1000

(***************************************************************************)
(* C13: after delete_target(id) completes the store holds no raw sample    *)
(* and no aggregated window whose target_id is id.                         *)
(***************************************************************************)
C13_DeleteCascades ==
    [][(call' # call /\ call'.op = "DeleteTarget")
          => /\ \A r \in raw' : r.target_id # call'.id
             /\ \A a \in agg' : a.target_id # call'.id]_vars

(***************************************************************************)
(* C14: the store holds at most one aggregated window for each key         *)
(* (target_id, window_seconds, window_start); an upsert stores the row it  *)
(* is given, and on a key that exists it leaves the number of rows as it   *)
(* was, so the tdigest and timeout_count of the row are replaced.          *)
(***************************************************************************)
C14_UpsertByKey ==
    [][/\ \A x, y \in agg' : SameKey(x, y) => x = y
       /\ (call' # call /\ call'.op = "AddAggregatedResult")
             => /\ call'.row \in agg'
                /\ (\E y \in agg : SameKey(y, call'.row))
                      => Cardinality(agg') = Cardinality(agg)]_vars

\* the last upsert has overwritten a row that held other values
C14_Overwritten ==
    /\ call.op = "AddAggregatedResult"
    /\ call.old # {}
    /\ call.row \notin call.old
    /\ call.row \in agg

(***************************************************************************)
(* C15: append_raw(batch) is all-or-nothing.  While the call runs, the     *)
(* table a reader sees holds none of the rows of the batch or all of them, *)
(* and when a statement of the batch fails none of them is stored.         *)
(***************************************************************************)
C15_BatchAtomic ==
    [][tx.open =>
          /\ raw' \cap tx.batch \in {{}, tx.batch}
          /\ (call' # call /\ call'.op = "AddRawResults" /\ call'.err)
                => raw' \cap tx.batch = {}]_vars

\* a batch of two rows has failed at its second statement and left nothing
C15_FailedAfterFirstRow ==
    /\ call.op = "AddRawResults"
    /\ call.err
    /\ call.done # {}
    /\ raw \cap call.batch = {}

\* the row of data_stats with the key, with zeros when there is none
StatRow(key) ==
    IF \E x \in stats : x.stat_key = key
    THEN CHOOSE x \in stats : x.stat_key = key
    ELSE [stat_key |-> key, row_count |-> 0, total_bytes |-> 0]

(***************************************************************************)
(* C16: the stats cache agrees with the tables: row_count of 'raw_count'   *)
(* is the number of raw rows, and for every (target, window) row_count of  *)
(* 'agg:{target}:{window}' is the number of aggregated rows of the tier    *)
(* and total_bytes the sum of their blob lengths.                          *)
(***************************************************************************)
C16_StatsAgree ==
    /\ StatRow(RawKey).row_count = Cardinality(raw)
    /\ \A k \in { x.stat_key : x \in stats } \cup { AggKey(r) : r \in agg } :
          k.kind = "agg" =>
              LET rows == { r \in agg : r.target_id = k.target_id
                                        /\ r.window_seconds = k.window_seconds }
              IN /\ StatRow(k).row_count = Cardinality(rows)
                 /\ StatRow(k).total_bytes = SumBlobLen(rows)

\* raw rows have been inserted and deleted, and the last upsert has
\* overwritten a row by one with a blob of another length
C16_AfterOverwriteAndDelete ==
    /\ rawLog \ raw # {}
    /\ raw # {}
    /\ call.op = "AddAggregatedResult"
    /\ \E o \in call.old : BlobLen(o) # BlobLen(call.row)
    /\ \E x \in stats : x.stat_key.kind = "agg" /\ x.row_count = 1

\* the probe loops started for the id that have not returned
LoopsRunning(ls, id) ==
    { l \in 1..Len(ls) : ls[l].target_id = id /\ ls[l].pc # "exited" }

\* the probe loops started for the id whose stop channel is open
LoopsNotStopped(ls, id) ==
    { l \in 1..Len(ls) : ls[l].target_id = id /\ ~ls[l].stopped }

(***************************************************************************)
(* C17: AddTarget for an id that has a cancellation handle starts no probe *)
(* loop and leaves the handle map as it was; for an id without a handle it *)
(* starts one loop and stores one handle, so that however many AddTarget   *)
(* calls for an id follow one another, one loop is started.                *)
(***************************************************************************)
C17_AddTargetIdempotent ==
    [][(call'.op = "AddTarget" /\ (call' # call \/ Len(loops') # Len(loops)))
          => LET id == call'.id
             IN /\ IF \E h \in stopChans : h.id = id
                   THEN stopChans' = stopChans /\ loops' = loops
                   ELSE Len(loops') = Len(loops) + 1
                /\ Cardinality({ h \in stopChans' : h.id = id }) = 1
                /\ Cardinality(LoopsNotStopped(loops', id)) = 1]_vars

\* AddTarget has returned without starting a loop: the id had its handle
C17_SecondAddTarget ==
    /\ call.op = "AddTarget"
    /\ call.started = 0
    /\ Len(loops) = 1
    /\ \E h \in stopChans : h.id = call.id /\ h.loop = 1

(***************************************************************************)
(* C18: at any time at most one probe loop is running for a target id,     *)
(* also when RemoveTarget(id) is followed at once by AddTarget of the id.  *)
(***************************************************************************)
C18_OneLoopPerTarget ==
    \A t \in targets : Cardinality(LoopsRunning(loops, t.id)) <= 1

(***************************************************************************)
(* C19: the cancellation handle of a removed target leaves the handle map  *)
(* only when all the in-flight probes of the target have returned.         *)
(***************************************************************************)
C19_HandleDroppedAfterProbes ==
    [][\A h \in stopChans \ stopChans' : ProbesInFlight(h.id) = 0]_vars

(***************************************************************************)
(* C20: an admitted probe that succeeds records one sample with the        *)
(* measured latency, one that ends in Timeout records one sample with      *)
(* latency -1, and one that ends in any other error records nothing.       *)
(***************************************************************************)
C20_OutcomeRecorded ==
    [][\A l \in 1..Len(loops), o \in ProbeOutcomes :
          runProbeReturns(l, o)
             => LET expected == CASE o.kind = "success" -> <<o.latency>>
                                  [] o.kind = "timeout" -> <<TimeoutSentinel>>
                                  [] OTHER -> <<>>
                IN loops'[l].resultsChan = loops[l].resultsChan \o expected]_vars

(***************************************************************************)
(* C21, as stated: across every pass of the RollupManager over a tier,     *)
(* the store succeeding, last_rollup_time of the tier is strictly greater  *)
(* after the pass than before it.                                          *)
(***************************************************************************)
C21_StrictlyIncreasingEveryTick ==
    [][RollupPolicy =>
          LET w == rmPolicies[rmIdx].window
          IN w # 0 => GetLastRollupTime(agg', rmTarget.id, w)
                         > GetLastRollupTime(agg, rmTarget.id, w)]_vars

(***************************************************************************)
(* C21, amended: a pass over a tier never lowers last_rollup_time of the   *)
(* tier, and raises it when the pass stores a window; a pass that finds no *)
(* closed window leaves it as it was.                                      *)
(***************************************************************************)
C21_IncreasesWhenWindowStored ==
    [][RollupPolicy =>
          LET w == rmPolicies[rmIdx].window
              before == GetLastRollupTime(agg, rmTarget.id, w)
              after == GetLastRollupTime(agg', rmTarget.id, w)
              results == rollupResults(rmTarget, w, rmLastWindow)
          IN w # 0 => /\ after >= before
                      /\ results # {} => after > before
                      /\ results = {} => after = before]_vars

\* a tier holds windows of two passes and the RollupManager is between ticks
C21_TierAdvancedTwice ==
    /\ rmPc = "idle"
    /\ \E w \in AllWindows :
          /\ lastSeen[w] # ZeroTime
          /\ \E x, y \in agg : /\ x.window_seconds = w /\ y.window_seconds = w
                               /\ x.time < y.time

C23_FlushedExactlyOnce ==
    [][/\ \A r \in buffer \ buffer' :
             \/ r \in raw' /\ r \notin raw
             \/ r \in dropped' /\ r \notin dropped
       /\ \A r \in raw' \ raw : r \notin rawLog /\ r \notin dropped
       /\ \A r \in dropped' : r \notin raw' /\ r \notin buffer'
       /\ Cardinality(buffer') < BatchSize
       /\ buffer' # {} => clock' - bufSince' <= FlushInterval
       /\ FlushEmpty => raw' = raw /\ stats' = stats /\ dropped' = dropped]_vars

\* a flush has failed and dropped its samples, and a sample received after
\* it is committed
C23_DroppedThenCommitted ==
    \E d \in dropped : \E r \in raw :
        /\ r.id > d.id
        /\ d \notin rawLog
        /\ buffer = {}

(***************************************************************************)
(* C24: every measurement a probe has delivered to the scheduler before    *)
(* the target is removed is persisted: when the aggregation goroutine of a *)
(* removed target has returned, every value it held when the target was   *)
(* removed has been saved with AddResult.                                  *)
(***************************************************************************)
C24_CollectedIsPersisted ==
    \A l \in 1..Len(loops) : loops[l].aggDone => loops[l].held = 0


\* C25: the RetentionManager enforces retention once when it is started,
\* before any tick, and afterwards once per hour of the logical clock: when
\* it waits in its loop with no tick to take it has made one run and one more
\* for every hour since Start(); a step that is no run of enforceRetention
\* deletes no row.
C25_OncePerHour ==
    /\ [](/\ rt.pc \in {"new", "initial"} => rt.runs = 0
          /\ (rt.pc = "loop" /\ ~rt.pending) =>
                rt.runs = 1 + (clock - rt.started) \div RetentionInterval)
    /\ [][ \/ RetentionInitial
           \/ RetentionTick
           \/ (raw \subseteq raw' /\ agg \subseteq agg') ]_vars

\* C25 witness: two hours after Start() the third run has been made and the
\* samples that were written are deleted
C25_ThirdRunDeleted ==
    /\ rt.pc = "loop"
    /\ rt.runs = 3
    /\ clock - rt.started = 2 * RetentionInterval
    /\ rawLog # {}
    /\ raw = {}

\* C26: a reply to raw=true holds the raw samples of [start, end) in
\* ascending time order, the first PointLimit of them at most, each with
\* probe_count 1 and with every percentile field (P0, P1, P25, P50, P75, P99,
\* P100 and the grid of GridSize values) equal to the latency of the sample.
C26_RawReply ==
    [][ (handleGetResultsRaw /\ call'.status = 200) =>
          LET rows == GetRawResults(raw, TargetID, call'.start, call'.end)
              reply == call'.results
          IN /\ Len(reply) = Min({Cardinality(rows), PointLimit})
             /\ \A i \in 1..Len(reply) :
                   /\ \A j \in 1..Len(reply) : i < j => reply[i].Time <= reply[j].Time
                   /\ reply[i].ProbeCount = 1
                   /\ \E x \in rows :
                         /\ x.time = reply[i].Time
                         /\ reply[i].P0 = x.latency /\ reply[i].P1 = x.latency
                         /\ reply[i].P25 = x.latency /\ reply[i].P50 = x.latency
                         /\ reply[i].P75 = x.latency /\ reply[i].P99 = x.latency
                         /\ reply[i].P100 = x.latency
                         /\ reply[i].Percentiles = [k \in 1..GridSize |-> x.latency] ]_vars

C28_StopWaitsForExit ==
    /\ [](mgrStop.rollup = "returned" => rmPc = "exited")
    /\ [](mgrStop.retention = "returned" => rt.pc = "exited")
    /\ [][ /\ (rmPc' = "exited" /\ rmPc # "exited") => rmPc = "idle"
           /\ (rt'.pc = "exited" /\ rt.pc # "exited") => rt.pc = "loop"
           /\ mgrStop.rollup = "returned" =>
                 ~(RollupBegin \/ RollupPolicy) /\ rmPc' = "exited"
           /\ mgrStop.retention = "returned" =>
                 ~RetentionInitial /\ rt' = rt ]_vars
    /\ (mgrStop.rollup = "closed" ~> mgrStop.rollup = "returned")
    /\ (mgrStop.retention = "closed" ~> mgrStop.retention = "returned")

\* C28 witness: both Stop() calls have returned; the RollupManager has
\* stored a window in a pass it finished and the RetentionManager has made
\* its run and deleted a sample
C28_BothStopped ==
    /\ mgrStop.rollup = "returned"
    /\ mgrStop.retention = "returned"
    /\ lastSeen[CascadeSource] # ZeroTime
    /\ rt.runs = 1
    /\ raw # rawLog

\* C29: the policy list of every target written by a create request is
\* sorted by window with no two policies of one window, and every non-raw
\* window is a multiple of the non-raw window before it; a request whose
\* list breaks the multiple rule is answered 400 and writes no target.
C29_StoredListsOrdered ==
    /\ \A t \in targets :
          \A i, j \in 1..Len(t.policies) :
              i < j =>
                 /\ t.policies[i].window < t.policies[j].window
                 /\ t.policies[i].window # 0 =>
                       t.policies[j].window % t.policies[i].window = 0
    /\ (call.op = "handleCreateTarget" /\ call.status = 201) =>
          ValidateRetentionPolicies(call.policies)

\* the intervals [s, s + W) a pass over tier W examines: from the start of
\* the next window on, window by window, those that end at the cutoff or
\* before
ExaminedStarts(t, windowSeconds) ==
    LET nextWindowStart == nextWindowStartOf(t, windowSeconds)
    IN IF nextWindowStart = ZeroTime THEN {}
       ELSE { st \in nextWindowStart..Cutoff(t, clock) :
                /\ (st - nextWindowStart) % windowSeconds = 0
                /\ st + windowSeconds <= Cutoff(t, clock) }

\* the source rows of the interval [start, end)
SourceRows(t, sourceWindow, start, end) ==
    IF sourceWindow = 0
    THEN GetRawResults(raw, t.id, start, end)
    ELSE GetAggregatedResults(agg, t.id, sourceWindow, start, end)

\* C30: for every interval [s, s + W) a pass examines (aligned, s + W at
\* the cutoff or before) that has no source rows, the pass stores a window
\* at s with an empty digest and timeout_count 0; last_rollup_time of the
\* tier is then s or later, so the next pass (which starts one window after
\* last_rollup_time) starts after s; and s lies after the last_rollup_time
\* the pass before ended with: the interval was not examined before.
C30_EmptyWindowStored ==
    [][ RollupPolicy =>
          LET w == rmPolicies[rmIdx].window
          IN w # 0 =>
               \A st \in ExaminedStarts(rmTarget, w) :
                   SourceRows(rmTarget, rmLastWindow, st, st + w) = {} =>
                      /\ [target_id |-> rmTarget.id, window_seconds |-> w,
                          time |-> st, tdigest |-> 0, timeout_count |-> 0] \in agg'
                      /\ GetLastRollupTime(agg', rmTarget.id, w) >= st
                      /\ GetLastRollupTime(agg', rmTarget.id, w) + w > st
                      /\ st > lastSeen[w] ]_vars

\* C30 witness: a pass has stored an empty window of the first tier for an
\* interval no sample was ever written in, after a window with a sample
C30_EmptyAfterSample ==
    \E x, y \in agg :
        /\ x.window_seconds = CascadeSource /\ y.window_seconds = CascadeSource
        /\ x.time < y.time
        /\ x.tdigest + x.timeout_count > 0
        /\ y.tdigest = 0 /\ y.timeout_count = 0
        /\ SamplesIn(y) = {}
        /\ lastSeen[CascadeSource] = y.time

(***************************************************************************)
(* C31: a probe tick that fires while 5 probes of the loop are in flight   *)
(* starts no probe, and no probe starts when a slot frees up later: every  *)
(* probe is started by the tick that fired, so probes started never        *)
(* exceed ticks fired, and at most 5 are in flight.                        *)
(***************************************************************************)
C31_FullCapSkipsTick ==
    /\ [](\A l \in 1..Len(loops) :
             /\ ticks[l].started <= ticks[l].fired
             /\ loops[l].sem <= ProbeCap
             /\ loops[l].sem <= ticks[l].started)
    /\ [][\A l \in 1..Len(loops) :
             /\ (ticks'[l].fired # ticks[l].fired /\ loops[l].sem = ProbeCap)
                   => (loops' = loops /\ ticks'[l].started = ticks[l].started)
             /\ ticks'[l].fired = ticks[l].fired
                   => (/\ ticks'[l].started = ticks[l].started
                       /\ loops'[l].sem <= loops[l].sem)]_vars

\* a tick has been skipped, and a slot has been freed since
C31_SkippedThenFreed ==
    \E l \in 1..Len(loops) :
       /\ ticks[l].fired = ProbeCap + 1
       /\ ticks[l].started = ProbeCap
       /\ loops[l].sem = ProbeCap - 1

(***************************************************************************)
(* C32: a deletion by cutoff removes only rows of its own target and tier  *)
(* that are strictly older than the cutoff: a row with time >= cutoff      *)
(* stays, and the rows of every other tier, of the raw tier and of every   *)
(* other target are left as they were.                                     *)
(***************************************************************************)
C32_DeletionsIndependent ==
    [][/\ TierDeleteAggregatedResultsBefore =>
             /\ raw' = raw
             /\ agg' \subseteq agg
             /\ \A x \in agg :
                   x \notin agg' <=> (/\ x.target_id = call'.id
                                      /\ x.window_seconds = call'.window
                                      /\ x.time < call'.cutoff)
       /\ TierDeleteRawResultsBefore =>
             /\ agg' = agg
             /\ raw' \subseteq raw
             /\ \A x \in raw :
                   x \notin raw' <=> (x.target_id = call'.id
                                      /\ x.time < call'.cutoff)]_vars

\* a tier deletion has removed a row and spared the row at the cutoff, the
\* older rows of the other tier and of the other target, and the samples
C32_OneTierTrimmed ==
    /\ call.op = "DeleteAggregatedResultsBefore"
    /\ call.cutoff = 4
    /\ agg = { x \in TierRows : ~(x.target_id = call.id
                                  /\ x.window_seconds = call.window
                                  /\ x.time < call.cutoff) }
    /\ raw = TierRawRows
    /\ stats = statsOf(raw, agg)

\* the source rows of the interval whose digest does not parse
Unparsed(t, sourceWindow, start, end) ==
    { res \in SourceRows(t, sourceWindow, start, end) : res.tdigest = CorruptBlob }

(***************************************************************************)
(* C33: when a source row of a window of a cascaded tier holds a sketch    *)
(* that cannot be parsed, the pass goes on: every window it examines after *)
(* that one is stored in the same pass and last_rollup_time of the tier    *)
(* advances to the last of them; the affected window itself is stored      *)
(* with the digests that parse merged and the timeouts of all its rows.    *)
(***************************************************************************)
C33_CorruptSketchSkipped ==
    [][ RollupPolicy =>
          LET w == rmPolicies[rmIdx].window
              starts == ExaminedStarts(rmTarget, w)
          IN (w # 0 /\ rmLastWindow # 0) =>
               \A st \in starts :
                   Unparsed(rmTarget, rmLastWindow, st, st + w) # {} =>
                      /\ \A later \in starts :
                            later > st =>
                               \E x \in agg' : /\ x.target_id = rmTarget.id
                                               /\ x.window_seconds = w
                                               /\ x.time = later
                      /\ GetLastRollupTime(agg', rmTarget.id, w) = Max(starts)
                      /\ GetLastRollupTime(agg', rmTarget.id, w)
                            > GetLastRollupTime(agg, rmTarget.id, w)
                      /\ LET rows == SourceRows(rmTarget, rmLastWindow, st, st + w)
                         IN [target_id |-> rmTarget.id, window_seconds |-> w,
                             time |-> st,
                             tdigest |-> SumCounts({ r \in rows :
                                                       r.tdigest # CorruptBlob }),
                             timeout_count |-> SumTimeouts(rows)] \in agg' ]_vars

\* one pass has stored the window with the unparsed source row, built from
\* the row that parses, and the window after it
C33_WindowAfterCorruptStored ==
    /\ \E x \in agg : x.window_seconds = CascadeSource /\ x.tdigest = CorruptBlob
    /\ \E x, y \in agg :
          /\ x.window_seconds = CascadeWindow /\ y.window_seconds = CascadeWindow
          /\ x.time = -4 /\ x.tdigest = 1 /\ x.timeout_count = 1
          /\ y.time = 0
    /\ lastSeen[CascadeWindow] = 0

(***************************************************************************)
(* C34: however AddTarget, probe ticks, probe completions and RemoveTarget *)
(* of a target id interleave, no probe goroutine sends on the results      *)
(* channel of a loop after the loop has closed it, and a removed loop      *)
(* terminates once its probes have returned: its stop channel stays        *)
(* closed, it can always take <-stopCh, from then on it starts no probe,   *)
(* every probe in flight can return, and with none in flight wg.Wait()     *)
(* returns and the loop closes the channel and returns.                    *)
(***************************************************************************)
C34_NoSendAfterClose ==
    /\ [][\A l \in 1..Len(loops) :
             /\ Len(loops'[l].resultsChan) > Len(loops[l].resultsChan)
                   => loops[l].pc # "exited"
             /\ (loops'[l].pc = "exited" /\ loops[l].pc # "exited")
                   => (loops[l].sem = 0 /\ loops[l].pc = "wait")
             /\ loops[l].stopped => loops'[l].stopped
             /\ loops[l].pc = "wait" => loops'[l].pc \in {"wait", "exited"}
             /\ loops[l].pc = "exited" => loops'[l].pc = "exited"
             /\ loops[l].pc # "select" => loops'[l].sem <= loops[l].sem]_vars
    /\ [](\A l \in 1..Len(loops) :
             /\ loops[l].pc = "exited" => loops[l].sem = 0
             /\ (loops[l].stopped /\ loops[l].pc = "select")
                   => ENABLED (LoopStop /\ loops'[l].pc = "wait")
             /\ loops[l].sem > 0
                   => ENABLED (LoopProbeDone /\ loops'[l].sem < loops[l].sem)
             /\ (loops[l].pc = "wait" /\ loops[l].sem = 0)
                   => ENABLED (LoopExit /\ loops'[l].pc = "exited"))

\* a loop was removed with probes in flight, one of them has sent its
\* result since, and the loop has returned; a second loop of the id runs
C34_RemovedLoopDrained ==
    /\ Len(loops) = 2
    /\ loops[1].pc = "exited"
    /\ loops[1].resultsChan # <<>>
    /\ loops[2].pc = "select"
    /\ loops[2].sem > 0

(***************************************************************************)
(* C35: after any sequence of rollup ticks, also ticks in which the fetch  *)
(* of the source rows of a window fails, the stored windows of a tier have *)
(* no gap: with a window stored at a start s greater than the smallest     *)
(* stored start of the tier, a window is stored at s - W (no retention     *)
(* run deletes a row here).                                                *)
(***************************************************************************)
C35_GapFree ==
    \A x \in agg :
       LET tier == { y \in agg : y.target_id = x.target_id
                                 /\ y.window_seconds = x.window_seconds }
       IN x.time > Min({ y.time : y \in tier })
             => \E y \in tier : y.time = x.time - x.window_seconds

(***************************************************************************)
(* C36: a pass over a tier sourced from raw stores, for every window       *)
(* [s, s + W) it examines, the count of the samples present with           *)
(* s <= t < s + W, timeouts and latencies apart; a sample at s + W is not  *)
(* among them and is counted in the next window; the windows of a pass do  *)
(* not overlap and the stored windows of a tier lie on one grid of step W, *)
(* so a timestamp lies in one window of the tier only.                     *)
(***************************************************************************)
C36_SampleInOneWindow ==
    /\ [][ RollupPolicy =>
             LET w == rmPolicies[rmIdx].window
                 id == rmTarget.id
                 starts == ExaminedStarts(rmTarget, w)
                 present(st) == { r \in raw : /\ r.target_id = id
                                              /\ st <= r.time
                                              /\ r.time < st + w }
             IN (w # 0 /\ rmLastWindow = 0) =>
                  /\ \A st \in starts :
                        [target_id |-> id, window_seconds |-> w, time |-> st,
                         tdigest |-> Cardinality({ r \in present(st) :
                                                     r.latency # TimeoutSentinel }),
                         timeout_count |-> Cardinality({ r \in present(st) :
                                                     r.latency = TimeoutSentinel })]
                           \in agg'
                  /\ \A r \in raw :
                        Cardinality({ st \in starts : r \in present(st) }) <= 1
                  /\ \A r \in raw, st \in starts :
                        (r.target_id = id /\ r.time = st + w) =>
                           /\ r \notin present(st)
                           /\ (st + w) \in starts => r \in present(st + w) ]_vars
    /\ [](\A x, y \in agg :
             (x.target_id = y.target_id /\ x.window_seconds = y.window_seconds)
                => (x.time - y.time) % x.window_seconds = 0)

\* a sample at the boundary of two stored windows of the first tier is
\* counted in the later one, and the earlier one counts a sample of its own
C36_BoundarySampleCounted ==
    \E x, y \in agg : \E r \in raw :
        /\ x.window_seconds = CascadeSource /\ y.window_seconds = CascadeSource
        /\ y.time = x.time + CascadeSource
        /\ r.time = y.time
        /\ y.tdigest + y.timeout_count = Cardinality(SamplesIn(y))
        /\ x.tdigest + x.timeout_count = 1
        /\ Cardinality(SamplesIn(x)) = 1

---------------------------------------------------------------------------
(* C37: once an update that removes tier W from the policies of a target   *)
(* has completed, no tier-W aggregated row of that target exists in any    *)
(* later state, even when a RollupManager pass that read the old policies  *)
(* of the target runs at the same time as the update.                      *)
C37_RemovedTierStaysEmpty ==
    (call.op = "handleUpdateTarget" /\ call.status = 200) =>
        \A r \in agg :
            ~(r.target_id = call.id /\ r.window_seconds \in call.removed)

---------------------------------------------------------------------------
(* C38: after a create or an update of a target that succeeded at the HTTP *)
(* boundary, the stored target has a retention policy list that is not     *)
(* empty, so that GetRetentionPolicies returns it to the RollupManager and *)
(* to the series query.                                                    *)
C38_StoredListNonEmpty ==
    (/\ call.op \in {"handleCreateTarget", "handleUpdateTarget"}
     /\ call.status \in {200, 201}) =>
        \E t \in targets : t.id = call.id /\ GetRetentionPolicies(t) # <<>>

---------------------------------------------------------------------------
(* C39: once a delete-target request has completed, no measurement that    *)
(* carries the id of that target is written to the store, even when probes *)
(* of the target were in flight as the deletion started: every row a step  *)
(* adds to the table results belongs to a target the store holds.          *)
C39_NoWriteAfterDelete ==
    [][\A x \in resultsTable' \ resultsTable :
          \E t \in targets : t.id = x.target_id]_vars

---------------------------------------------------------------------------
(* C40: a RollupManager tick run a second time at the same logical time,   *)
(* with no other change of the store in between, leaves the store as the   *)
(* first tick left it.  At the step that completes a tick, the second tick *)
(* is computed on the store that step leaves: for every tier of the        *)
(* target, in the order of processRollups, processTargetWindow returns the *)
(* table unchanged and its batch moves no statistics, so each tier of the  *)
(* second tick runs on that same store.                                    *)
C40_SecondTickChangesNothing ==
    [][(rmPc = "run" /\ rmPc' = "idle") =>
          \A t \in {rmTarget} : \A ps \in {rmPolicies} :
             \A i \in 1..Len(ps) :
                ps[i].window # 0 =>
                   LET lastWindow == IF i = 1 THEN 0 ELSE ps[i - 1].window
                   IN /\ (processTargetWindow(t, ps[i].window, lastWindow) = agg)'
                      /\ (statsAfterUpserts(stats, agg,
                              rollupResults(t, ps[i].window, lastWindow)) = stats)'
                      /\ raw' = raw]_vars

\* a second tick at the time of the first has processed the first tier: the
\* last window of the tier is the one the first tick stored at this cutoff
C40_SecondTickRan ==
    /\ rmPc = "run"
    /\ rmIdx = 3
    /\ lastSeen[CascadeSource] >= 0
    /\ Cutoff(rmTarget, clock) = lastSeen[CascadeSource] + CascadeSource
    /\ GetLastRollupTime(agg, rmTarget.id, CascadeSource) = lastSeen[CascadeSource]
    /\ lastSeen[CascadeWindow] # ZeroTime
    /\ GetLastRollupTime(agg, rmTarget.id, CascadeWindow) = lastSeen[CascadeWindow]

=============================================================================
